---- MODULE Spec2Model ----
(***************************************************************************)
(* Factor_Flow: the Z-score state machine of backend/calculate_zscores.py  *)
(* together with the delete-then-insert writer of the performance store    *)
(* (calculate_factor_performance.py) that feeds it; the Feature Engine     *)
(* (calculate_features.py), the Rule Classifier (stat_engine.py) with the  *)
(* membership store, and the Performance Aggregator run as a whole.        *)
(*                                                                         *)
(* Closes are powers of two, so log returns are integers in units of ln 2; *)
(* features, thresholds and period returns are fractions in lowest terms.  *)
(* In the runs of the Performance Aggregator that compute the return from  *)
(* the price panel, perf_1d is such a fraction and holdings are sets of    *)
(* tickers.                                                                *)
(*                                                                         *)
(* Numbers.  perf_1d is kept in units of 0.01 as an integer, or NaN.  A    *)
(* z-score (x - mean) / std over n defined values with sum S and sum of    *)
(* squares Q is the real number whose sign is that of n*x - S and whose    *)
(* square is (n*x - S)^2 * (n-1) / (n * (n*Q - S^2)); it is kept as that   *)
(* sign and that fraction in lowest terms, so two z-scores are the same    *)
(* real number exactly when their representations are equal.  Floating     *)
(* point rounding is not modelled.                                         *)
(*                                                                         *)
(* Dates are day numbers.  A table is modelled by its rows: the            *)
(* performance rows of one factor as a sequence ordered by run_date (the   *)
(* order calculate_zscores_smart sorts them into), the Z-score history as  *)
(* a bag of rows (the table has no uniqueness of its own).                 *)
(***************************************************************************)
EXTENDS Integers, Sequences, FiniteSets, Bags, TLC

ROLLING_WINDOW == 252

batch_size == 500

\* A perf_1d (and a factor_value) is <<v>> when defined and <<>> when not
\* (None in the store, NaN in the frame)
NaN == <<>>

\* ---- bounds of the model ----
Factors == {1, 2}

\* defined perf_1d values a performance run of the model can write
PerfVals == {1}

\* number of days the clock advances after the initial day
MaxTicks == 1

\* the same where the performance history only grows
MaxGrowTicks == 2

\* ---- pure helpers ----
RECURSIVE GCD(_, _)
GCD(a, b) == IF b = 0 THEN a ELSE GCD(b, a % b)

Range(s) == {s[i] : i \in DOMAIN s}

\* x to the power k, for k in 0..2
Pow(x, k) == IF k = 0 THEN 1 ELSE IF k = 1 THEN x ELSE x * x

\* the defined perf_1d values that occur in the rows h, each with the set of
\* rows it occurs in
Positions(h) ==
    [v \in {h[i].perf_1d : i \in DOMAIN h} \ {NaN} |->
        {i \in DOMAIN h : h[i].perf_1d = v}]

\* the sum of perf_1d^k over the defined rows among h[lo..hi], pos being
\* Positions(h), taken value by value (k = 0 counts the defined rows, as
\* pandas counts the non-NaN observations)
RECURSIVE SumOver(_, _, _, _, _)
SumOver(pos, vals, lo, hi, k) ==
    IF vals = {} THEN 0
    ELSE LET v == CHOOSE x \in vals : TRUE
         IN Pow(v[1], k) * Cardinality(pos[v] \cap (lo..hi))
            + SumOver(pos, vals \ {v}, lo, hi, k)

WindowSum(pos, lo, hi, k) == SumOver(pos, DOMAIN pos, lo, hi, k)

\* ZScoreValue with the population standard deviation (ddof = 0)
ZScoreValuePopulation(x, n, S, Q) ==
    LET d == n * x - S
        num == d * d
        den == n * Q - S * S
        g == GCD(num, den)
    IN [sgn |-> IF d > 0 THEN 1 ELSE IF d < 0 THEN -1 ELSE 0,
        num |-> num \div g, den |-> den \div g]

\* the z-score of x against n defined values with sum S and sum of squares Q
\* (sample standard deviation, ddof = 1); needs n >= 2 and n*Q - S*S > 0
ZScoreValue(x, n, S, Q) ==
    LET d == n * x - S
        num == d * d * (n - 1)
        den == n * (n * Q - S * S)
        g == GCD(num, den)
    IN [sgn |-> IF d > 0 THEN 1 ELSE IF d < 0 THEN -1 ELSE 0,
        num |-> num \div g, den |-> den \div g]

\* n * (n-1) * variance of n defined values; the standard deviation is
\* positive exactly when n >= 2 and this is positive
VarNumer(n, S, Q) == n * Q - S * S

\* ---- calculate_zscores_smart ----

\* the factor of S whose first row comes first in the frame, which is
\* ordered by run_date (rows of one date taken in factor_id order)
Earliest(df, S) ==
    CHOOSE f \in S : \A g \in S :
        \/ df[f][1].run_date < df[g][1].run_date
        \/ df[f][1].run_date = df[g][1].run_date /\ f <= g

RECURSIVE AppearanceOrder(_, _)
AppearanceOrder(df, S) ==
    IF S = {} THEN <<>>
    ELSE <<Earliest(df, S)>> \o AppearanceOrder(df, S \ {Earliest(df, S)})

\* df["factor_id"].unique(): the factors that have performance rows, in
\* order of first appearance
FactorIds(df) == AppearanceOrder(df, {f \in DOMAIN df : df[f] # <<>>})

\* the record appended to results for row t of h
ZRecord(factor_id, h, t, n, S, Q) ==
    [factor_id |-> factor_id, date |-> h[t].run_date,
     zscore |-> ZScoreValue(h[t].perf_1d[1], n, S, Q),
     factor_value |-> h[t].perf_1d]

\* RollingValid with the first full window left out
RollingValidLateStart(pos, t) ==
    /\ t >= ROLLING_WINDOW + 1
    /\ WindowSum(pos, t - ROLLING_WINDOW + 1, t, 0) >= ROLLING_WINDOW
    /\ VarNumer(ROLLING_WINDOW, WindowSum(pos, t - ROLLING_WINDOW + 1, t, 1),
                WindowSum(pos, t - ROLLING_WINDOW + 1, t, 2)) > 0

\* rolling(window, min_periods = window): row t has a rolling mean and std
\* when the window of ROLLING_WINDOW rows ending at t holds that many defined
\* values; its z-score is kept when it is neither NaN (0/0) nor infinite
\* (x/0), that is when the std is positive
RollingValid(pos, t) ==
    /\ t >= ROLLING_WINDOW
    /\ WindowSum(pos, t - ROLLING_WINDOW + 1, t, 0) >= ROLLING_WINDOW
    /\ VarNumer(ROLLING_WINDOW, WindowSum(pos, t - ROLLING_WINDOW + 1, t, 1),
                WindowSum(pos, t - ROLLING_WINDOW + 1, t, 2)) > 0

\* the records of rows lo..hi, in row order (by halves, which keeps the
\* evaluation shallow)
RECURSIVE BackfillRange(_, _, _, _, _)
BackfillRange(factor_id, h, pos, lo, hi) ==
    IF lo > hi THEN <<>>
    ELSE IF lo = hi
    THEN IF RollingValid(pos, lo)
         THEN <<ZRecord(factor_id, h, lo, ROLLING_WINDOW,
                        WindowSum(pos, lo - ROLLING_WINDOW + 1, lo, 1),
                        WindowSum(pos, lo - ROLLING_WINDOW + 1, lo, 2))>>
         ELSE <<>>
    ELSE LET mid == (lo + hi) \div 2
         IN BackfillRange(factor_id, h, pos, lo, mid)
            \o BackfillRange(factor_id, h, pos, mid + 1, hi)

\* BackfillRecords with the first row scored against the first full window
\* as well
BackfillRecordsWithFirstRow(factor_id, h) ==
    LET pos == Positions(h)
    IN (IF RollingValid(pos, ROLLING_WINDOW) /\ h[1].perf_1d # NaN
        THEN <<ZRecord(factor_id, h, 1, ROLLING_WINDOW,
                       WindowSum(pos, 1, ROLLING_WINDOW, 1),
                       WindowSum(pos, 1, ROLLING_WINDOW, 2))>>
        ELSE <<>>)
       \o BackfillRange(factor_id, h, pos, ROLLING_WINDOW, Len(h))

\* BACKFILL MODE: one record per row whose z-score survives dropna
BackfillRecords(factor_id, h) ==
    BackfillRange(factor_id, h, Positions(h), ROLLING_WINDOW, Len(h))

\* DailyRecords reading the first row of the window instead of the last
DailyRecordsFirstRow(factor_id, h) ==
    LET recent_df == SubSeq(h, Len(h) - ROLLING_WINDOW + 1, Len(h))
        last == Len(recent_df)
        pos == Positions(recent_df)
        n == WindowSum(pos, 1, last, 0)
        S == WindowSum(pos, 1, last, 1)
        Q == WindowSum(pos, 1, last, 2)
        today_value == recent_df[1].perf_1d
    IN  IF n >= 2 /\ VarNumer(n, S, Q) > 0 /\ today_value # NaN
        THEN <<ZRecord(factor_id, recent_df, 1, n, S, Q)>>
        ELSE <<>>

\* DAILY MODE: mean() and std() of the last ROLLING_WINDOW rows skip the
\* undefined values; std() is NaN below two defined values
DailyRecords(factor_id, h) ==
    LET recent_df == SubSeq(h, Len(h) - ROLLING_WINDOW + 1, Len(h))
        last == Len(recent_df)
        pos == Positions(recent_df)
        n == WindowSum(pos, 1, last, 0)
        S == WindowSum(pos, 1, last, 1)
        Q == WindowSum(pos, 1, last, 2)
        today_value == recent_df[last].perf_1d
    IN  IF n >= 2 /\ VarNumer(n, S, Q) > 0 /\ today_value # NaN
        THEN <<ZRecord(factor_id, recent_df, last, n, S, Q)>>
        ELSE <<>>

\* FactorMode with the comparison of the persisted count off by one
FactorModeOffByOne(h, existing_count) ==
    IF Len(h) < ROLLING_WINDOW THEN "skip"
    ELSE IF existing_count <= ROLLING_WINDOW THEN "backfill"
    ELSE "daily"

\* the branch taken for a factor with rows h and existing_count persisted
\* z-score rows
FactorMode(h, existing_count) ==
    IF Len(h) < ROLLING_WINDOW THEN "skip"
    ELSE IF existing_count < ROLLING_WINDOW THEN "backfill"
    ELSE "daily"

RECURSIVE SmartFrom(_, _, _, _, _)
SmartFrom(df, zscore_counts, ids, i, acc) ==
    IF i > Len(ids) THEN acc
    ELSE LET factor_id == ids[i]
             mode == FactorMode(df[factor_id], zscore_counts[factor_id])
         IN SmartFrom(df, zscore_counts, ids, i + 1,
              IF mode = "skip" THEN acc
              ELSE IF mode = "backfill"
              THEN [results |-> acc.results \o BackfillRecords(factor_id, df[factor_id]),
                    backfilled_factors |-> Append(acc.backfilled_factors, factor_id)]
              ELSE [results |-> acc.results \o DailyRecords(factor_id, df[factor_id]),
                    backfilled_factors |-> acc.backfilled_factors])

calculate_zscores_smart(df, zscore_counts) ==
    SmartFrom(df, zscore_counts, FactorIds(df), 1,
              [results |-> <<>>, backfilled_factors |-> <<>>])

\* ---- the Z-score history table and upload_zscores ----

\* the rows of factor fid in the table
RowsOf(store, fid) ==
    [r \in {x \in DOMAIN store : x.factor_id = fid} |-> store[r]]

\* get_zscore_counts_per_factor: the number of rows per factor
\* (counts.get(factor_id, 0) for a factor without rows)
get_zscore_counts_per_factor(store) ==
    [f \in Factors |-> BagCardinality(RowsOf(store, f))]

\* the elements of s in order of first appearance (pandas unique())
RECURSIVE UniqueFrom(_, _, _)
UniqueFrom(s, i, acc) ==
    IF i > Len(s) THEN acc
    ELSE UniqueFrom(s, i + 1, IF s[i] \in Range(acc) THEN acc ELSE Append(acc, s[i]))

Unique(s) == UniqueFrom(s, 1, <<>>)

InSeq(x, s) == \E i \in DOMAIN s : s[i] = x

\* a column of the frame
Column(s, fld) ==
    [i \in DOMAIN s |-> IF fld = "date" THEN s[i].date ELSE s[i].factor_id]

\* one delete request: .eq("factor_id", fid), with .eq("date", d) when
\* date = <<d>>
DeleteCall(fid, date) == [factor_id |-> fid, date |-> date]

Matches(row, call) ==
    /\ row.factor_id = call.factor_id
    /\ call.date = <<>> \/ call.date = <<row.date>>

\* the date x factor_id loops of the daily clearing, dates outermost
DailyDeleteCalls(unique_dates, factor_ids) ==
    [k \in 1..(Len(unique_dates) * Len(factor_ids)) |->
        DeleteCall(factor_ids[((k - 1) % Len(factor_ids)) + 1],
                   <<unique_dates[((k - 1) \div Len(factor_ids)) + 1]>>)]

\* the delete requests of upload_zscores, in the order it issues them
DeleteCalls(records, backfilled_factors) ==
    LET daily_records == SelectSeq(records, LAMBDA r : ~InSeq(r.factor_id, backfilled_factors))
    IN  [i \in DOMAIN backfilled_factors |-> DeleteCall(backfilled_factors[i], <<>>)]
        \o (IF daily_records = <<>> THEN <<>>
            ELSE DailyDeleteCalls(Unique(Column(daily_records, "date")),
                                  Unique(Column(daily_records, "factor_id"))))

\* the table after the first j delete requests, those in failed raising
\* (the error is caught and the rows stay)
RECURSIVE ApplyDeletes(_, _, _, _)
ApplyDeletes(store, calls, j, failed) ==
    IF j = 0 THEN store
    ELSE LET before == ApplyDeletes(store, calls, j - 1, failed)
         IN IF j \in failed THEN before
            ELSE [r \in {x \in DOMAIN before : ~Matches(x, calls[j])} |-> before[r]]

\* the rows s[lo..hi] as a bag
RECURSIVE BagOfRange(_, _, _)
BagOfRange(s, lo, hi) ==
    IF lo > hi THEN EmptyBag
    ELSE IF lo = hi THEN SetToBag({s[lo]})
    ELSE BagOfRange(s, lo, (lo + hi) \div 2) (+) BagOfRange(s, (lo + hi) \div 2 + 1, hi)

BagOfSeq(s) == BagOfRange(s, 1, Len(s))

NumBatches(records) == (Len(records) + batch_size - 1) \div batch_size

Batch(records, b) ==
    SubSeq(records, (b - 1) * batch_size + 1,
           IF b * batch_size < Len(records) THEN b * batch_size ELSE Len(records))

\* the table after insert batches 1..b, those in failed raising (logged,
\* nothing of the batch inserted)
RECURSIVE ApplyInserts(_, _, _, _)
ApplyInserts(store, records, b, failed) ==
    IF b = 0 THEN store
    ELSE LET before == ApplyInserts(store, records, b - 1, failed)
         IN IF b \in failed THEN before
            ELSE before (+) BagOfSeq(Batch(records, b))

\* upload_zscores: nothing at all for an empty frame; otherwise every
\* delete request, then every insert batch
upload_zscores(store, records, backfilled_factors, delFailed, insFailed) ==
    IF records = <<>> THEN store
    ELSE LET calls == DeleteCalls(records, backfilled_factors)
         IN ApplyInserts(ApplyDeletes(store, calls, Len(calls), delFailed),
                         records, NumBatches(records), insFailed)

\* ---- state ----
VARIABLES
    today,      \* the run date the clock gives (datetime.now().date())
    perf,       \* factor_performance: per factor, its rows ordered by run_date
    zstore,     \* factor_zscore_history: a bag of rows
    run,        \* what the Z-score run that led to this state did (NoRun
                \* after any other operation)
    prices,     \* stock_prices as the panel fetch_all_prices pivots it into:
                \* per ticker, its closes by date
    members,    \* factor_results_statistical: a bag of rows
    crun,       \* what the Rule Classifier run did, if the last run of the
                \* two processes was one
    prun,       \* what the Performance Aggregator run did, if the last run
                \* of the two processes was one
    feat,       \* the feature table of the last Feature Engine run
    wlog        \* the insert chunks of the last batched write

vars == <<today, perf, zstore, run, prices, members, crun, prun, feat, wlog>>

\* the tables and records the Z-score state machine does not touch
ext == <<prices, members, crun, prun, feat, wlog>>

\* a price store without rows
EmptyPanel == <<>>

NoClassifierRun == [kind |-> "none"]

NoPerfRun == [kind |-> "none"]

NoFeatures == [kind |-> "none"]

NoWrite == [kind |-> "none"]

InitExt ==
    /\ prices = EmptyPanel
    /\ members = EmptyBag
    /\ crun = NoClassifierRun
    /\ prun = NoPerfRun
    /\ feat = NoFeatures
    /\ wlog = NoWrite

\* the day the model starts on: a factor whose rows start on day 0 has
\* 2 * ROLLING_WINDOW - 1 of them, the fewest a backfill turns into
\* ROLLING_WINDOW z-scores
Day0 == 2 * ROLLING_WINDOW - 2

\* the first day of the rows of factors 1 and 2 in an initial state: two
\* established factors, one a row short of the other, or two new factors,
\* one with a first full window and one a row short of it
InitStarts == {<<1, 0>>, <<ROLLING_WINDOW, ROLLING_WINDOW - 1>>}

\* a performance history that varies inside every window
BaseVal(d) == IF d % 2 = 0 THEN 1 ELSE 5

BaseHistory(first, last) ==
    [i \in 1..(last - first + 1) |->
        [run_date |-> first + i - 1, perf_1d |-> <<BaseVal(first + i - 1)>>]]

NoRun == [kind |-> "none", mode |-> [f \in Factors |-> "none"],
          counts |-> [f \in Factors |-> 0],
          results |-> <<>>, backfilled_factors |-> <<>>, before |-> EmptyBag,
          repairs |-> FALSE, expected |-> EmptyBag]

Init ==
    /\ today = Day0
    /\ \E start \in InitStarts :
          perf = [f \in Factors |-> BaseHistory(start[f], Day0)]
    /\ zstore = EmptyBag
    /\ run = NoRun
    /\ InitExt

\* ---- operations ----

\* the clock passes midnight, up to the day last
TickUpTo(last) ==
    /\ today < last
    /\ today' = today + 1
    /\ run' = NoRun
    /\ UNCHANGED <<perf, zstore>>
    /\ UNCHANGED ext

Tick == TickUpTo(Day0 + MaxTicks)

\* an upload that sends no delete request
KeepRunDate(rows, date) == rows

\* .delete().eq("run_date", date) on the rows of one factor.  The rows are
\* ordered by run_date, one per date, and none is dated after the clock's
\* date (PerfOrdered), so only the last row can match.
DeleteRunDate(rows, date) ==
    IF rows # <<>> /\ rows[Len(rows)].run_date = date
    THEN SubSeq(rows, 1, Len(rows) - 1)
    ELSE rows

\* upload_factor_performance: delete the rows of run_date = today, insert one
\* row per factor of the holdings
upload_factor_performance(table, date, held, value) ==
    [f \in Factors |->
        DeleteRunDate(table[f], date)
        \o (IF f \in held THEN <<[run_date |-> date, perf_1d |-> value[f]]>> ELSE <<>>)]

\* run_factor_performance for holdings of the factors held, whose 1-day
\* returns are value
PerfRun ==
    /\ \E held \in (SUBSET Factors) \ {{}} :
       \E value \in [held -> {<<v>> : v \in PerfVals} \cup {NaN}] :
          perf' = upload_factor_performance(perf, today, held, value)
    /\ run' = NoRun
    /\ UNCHANGED <<today, zstore>>
    /\ UNCHANGED ext

\* what main() of calculate_zscores.py computes before it uploads
ZComputed ==
    LET zscore_counts == get_zscore_counts_per_factor(zstore)
        out == calculate_zscores_smart(perf, zscore_counts)
    IN [kind |-> "complete",
        mode |-> [f \in Factors |->
                    IF perf[f] = <<>> THEN "none"
                    ELSE FactorMode(perf[f], zscore_counts[f])],
        counts |-> zscore_counts,
        results |-> out.results,
        backfilled_factors |-> out.backfilled_factors,
        before |-> zstore,
        repairs |-> run.kind = "crashed",
        expected |-> IF run.kind = "crashed" THEN run.expected ELSE EmptyBag]

\* main() of calculate_zscores.py, run to completion
ZRun ==
    /\ \E c \in {ZComputed} :
          /\ run' = c
          /\ zstore' = upload_zscores(zstore, c.results, c.backfilled_factors, {}, {})
    /\ UNCHANGED <<today, perf>>
    /\ UNCHANGED ext

\* main() of calculate_zscores.py, the process dying in upload_zscores after
\* its j-th delete request and before any insert; expected is the table the
\* run would have left
ZCrash ==
    /\ \E c \in {ZComputed} :
          /\ c.results # <<>>
          /\ \E calls \in {DeleteCalls(c.results, c.backfilled_factors)} :
             \E j \in 1..Len(calls) :
                /\ zstore' = ApplyDeletes(zstore, calls, j, {})
                /\ run' = [c EXCEPT !.kind = "crashed", !.repairs = FALSE,
                                    !.expected = ApplyInserts(
                                        ApplyDeletes(zstore, calls, Len(calls), {}),
                                        c.results, NumBatches(c.results), {})]
    /\ UNCHANGED <<today, perf>>
    /\ UNCHANGED ext

Next == Tick \/ PerfRun \/ ZRun

Spec == Init /\ [][Next]_vars

\* the latest performance date of a factor with rows h
LatestDate(h) == h[Len(h)].run_date

\* run_factor_performance on a date that has no performance row yet
PerfRunNewDay ==
    /\ \A f \in Factors : perf[f] = <<>> \/ LatestDate(perf[f]) < today
    /\ PerfRun

\* the runs in which the performance history only grows
TickGrow == TickUpTo(Day0 + MaxGrowTicks)

NextGrow == TickGrow \/ PerfRunNewDay \/ ZRun

SpecGrow == Init /\ [][NextGrow]_vars

\* the same with runs that die between delete and insert
NextCrash == Tick \/ PerfRunNewDay \/ ZRun \/ ZCrash

SpecCrash == Init /\ [][NextCrash]_vars

\* the 260-day scenario: perf_1d is 0.01 on every day but the days of
\* spikes, where it is 0.05; the other factor has no rows yet
ScenarioDays == 260

SpikeSets == {{ScenarioDays}, {1, ROLLING_WINDOW + 2}}

ScenarioHistory(spikes) ==
    [i \in 1..ScenarioDays |->
        [run_date |-> i, perf_1d |-> IF i \in spikes THEN <<5>> ELSE <<1>>]]

InitScenario ==
    /\ today = ScenarioDays
    /\ \E spikes \in SpikeSets :
          perf = [f \in Factors |-> IF f = 1 THEN ScenarioHistory(spikes) ELSE <<>>]
    /\ zstore = EmptyBag
    /\ run = NoRun
    /\ InitExt

TickScenario == TickUpTo(ScenarioDays + MaxTicks)

NextScenario == TickScenario \/ PerfRun \/ ZRun

SpecScenario == InitScenario /\ [][NextScenario]_vars

\* the order of the performance rows that DeleteRunDate relies on
PerfOrdered ==
    \A f \in Factors :
        /\ \A i \in 1..(Len(perf[f]) - 1) : perf[f][i].run_date < perf[f][i + 1].run_date
        /\ \A i \in DOMAIN perf[f] : perf[f][i].run_date <= today

\* the records of the table beyond one per (factor_id, date)
Surplus(store) ==
    BagCardinality(store)
        - Cardinality({<<r.factor_id, r.date>> : r \in DOMAIN store})

\* main() of calculate_zscores.py, one delete request at most raising an
\* error, which upload_zscores catches; requests raise only while the
\* table has no surplus record
ZRunDeleteFails ==
    /\ \E c \in {ZComputed} :
       \E calls \in {DeleteCalls(c.results, c.backfilled_factors)} :
       \E delFailed \in {{}} \cup {{j} : j \in {k \in 1..Len(calls) :
                                                 Surplus(zstore) = 0}} :
          /\ run' = c
          /\ zstore' = upload_zscores(zstore, c.results, c.backfilled_factors, delFailed, {})
    /\ UNCHANGED <<today, perf>>
    /\ UNCHANGED ext

NextFaults == Tick \/ PerfRunNewDay \/ ZRunDeleteFails

SpecFaults == Init /\ [][NextFaults]_vars

\* ---- the Z-score endpoint (main.py) ----

\* .limit(300) of the history query
history_limit == 300

\* the ids of the factors table
FactorsTable == Factors

\* the ids a client asks for: the factors and one id the table lacks
RequestIds == Factors \cup {3}

\* z-scores are kept as sign and reduced square; a <= b
ZLeq(a, b) ==
    a.sgn * a.num * b.den <= b.sgn * b.num * a.den

\* .eq("factor_id", factor_id).order("date", desc=False): the rows of the
\* factor in ascending order of date (by halves of the range of dates); the
\* runs of this process keep one record per factor and date
ZScoreSeries(store, factor_id) ==
    LET rows == {r \in DOMAIN store : r.factor_id = factor_id}
        dates == {r.date : r \in rows}
        RECURSIVE Ascending(_, _)
        Ascending(lo, hi) ==
            IF lo > hi THEN <<>>
            ELSE IF lo = hi
            THEN IF lo \in dates
                 THEN LET r == CHOOSE x \in rows : x.date = lo
                      IN <<[date |-> r.date, zscore |-> r.zscore,
                            factor_value |-> r.factor_value]>>
                 ELSE <<>>
            ELSE LET mid == (lo + hi) \div 2
                 IN Ascending(lo, mid) \o Ascending(mid + 1, hi)
    IN IF rows = {} THEN <<>>
       ELSE Ascending(CHOOSE d \in dates : \A e \in dates : d <= e,
                      CHOOSE d \in dates : \A e \in dates : d >= e)

\* .limit(300): the first 300 rows of the ordered result
ZScoreQuery(store, factor_id) ==
    LET all == ZScoreSeries(store, factor_id)
    IN SubSeq(all, 1, IF Len(all) < history_limit THEN Len(all) ELSE history_limit)

\* get_factor_zscore: 404 for an id the factors table lacks; the empty
\* response for a factor without records; else the stats of the rows the
\* query returned, the current ones from its last row, and the rows
\* themselves (avg_zscore, a mean of floats, is not represented)
get_factor_zscore(store, factor_id) ==
    IF factor_id \notin FactorsTable
    THEN [status |-> 404, factor_id |-> factor_id]
    ELSE LET history == ZScoreQuery(store, factor_id)
             zscores == {history[i].zscore : i \in DOMAIN history}
         IN IF history = <<>>
            THEN [status |-> 200, factor_id |-> factor_id,
                  current_zscore |-> NaN, current_value |-> NaN,
                  max_zscore |-> NaN, min_zscore |-> NaN, history |-> <<>>]
            ELSE [status |-> 200, factor_id |-> factor_id,
                  current_zscore |-> <<history[Len(history)].zscore>>,
                  current_value |-> history[Len(history)].factor_value,
                  max_zscore |-> <<CHOOSE z \in zscores : \A y \in zscores : ZLeq(y, z)>>,
                  min_zscore |-> <<CHOOSE z \in zscores : \A y \in zscores : ZLeq(z, y)>>,
                  history |-> history]

\* the day the endpoint's process starts on: rows that start on day 1 are
\* backfilled into history_limit + 1 z-scores
ApiDay0 == ROLLING_WINDOW + history_limit

\* the first day of the rows of factors 1 and 2: one record more than the
\* query's limit and as many as the limit, or as many as the limit and none
ApiStarts == {<<1, 2>>, <<2, history_limit + 2>>}

InitApi ==
    /\ today = ApiDay0
    /\ \E start \in ApiStarts :
          perf = [f \in Factors |-> BaseHistory(start[f], ApiDay0)]
    /\ zstore = EmptyBag
    /\ run = NoRun
    /\ InitExt

\* GET /api/factor-zscore/{factor_id}; wlog keeps the response
FactorZscoreRequest ==
    /\ \E factor_id \in RequestIds :
          wlog' = [kind |-> "response", body |-> get_factor_zscore(zstore, factor_id)]
    /\ UNCHANGED <<today, perf, zstore, run, prices, members, crun, prun, feat>>

TickApi == TickUpTo(ApiDay0 + MaxTicks)

NextApi == TickApi \/ PerfRunNewDay \/ ZRun \/ FactorZscoreRequest

SpecApi == InitApi /\ [][NextApi]_vars

\* ---- the Feature Engine (calculate_features.py) ----
\* A close is a power of two, so that a log return, taken in units of ln 2,
\* is an integer and every statistic below is an exact fraction.  A cell of
\* the panel is <<close>> or NaN.  A standard deviation is kept as its
\* square.

BENCHMARK_TICKER == "SPY"

\* np.log of a close, in units of ln 2
RECURSIVE Log2(_)
Log2(p) == IF p <= 1 THEN 0 ELSE 1 + Log2(p \div 2)

Abs(x) == IF x < 0 THEN -x ELSE x

\* the fraction n / d (d > 0) in lowest terms
Frac(n, d) ==
    LET g == GCD(Abs(n), d)
    IN [num |-> n \div g, den |-> d \div g]

\* the sum of s[lo..hi], by halves
RECURSIVE SeqSum(_, _, _)
SeqSum(s, lo, hi) ==
    IF lo > hi THEN 0
    ELSE IF lo = hi THEN s[lo]
    ELSE SeqSum(s, lo, (lo + hi) \div 2) + SeqSum(s, (lo + hi) \div 2 + 1, hi)

\* len(price_matrix): the number of dates of the panel
PanelRows(pm) ==
    IF DOMAIN pm = {} THEN 0 ELSE Len(pm[CHOOSE t \in DOMAIN pm : TRUE])

\* DataFrame.empty
PanelEmpty(pm) == DOMAIN pm = {} \/ PanelRows(pm) = 0

\* price_matrix.count() of one column
CountDefined(col) == Cardinality({i \in DOMAIN col : col[i] # NaN})

\* filter_full_history_tickers: int(total_days * 0.95) rounds down
filter_full_history_tickers(price_matrix) ==
    LET total_days == PanelRows(price_matrix)
        min_required == (total_days * 95) \div 100
        sufficient_history ==
            {t \in DOMAIN price_matrix : CountDefined(price_matrix[t]) >= min_required}
            \cup (DOMAIN price_matrix \cap {BENCHMARK_TICKER})
    IN [t \in sufficient_history |-> price_matrix[t]]

\* np.log(price_matrix / price_matrix.shift(1)) of one column
LogRets(col) ==
    [i \in DOMAIN col |->
        IF i > 1 /\ col[i] # NaN /\ col[i - 1] # NaN
        THEN <<Log2(col[i][1]) - Log2(col[i - 1][1])>>
        ELSE NaN]

\* a lookback test that lets a panel of exactly lookback rows through
safe_lookbackInclusive(series_length, lookback) == ~(series_length < lookback)

\* _safe_lookback
safe_lookback(series_length, lookback) == ~(series_length <= lookback)

\* price_matrix.iloc[-1] / price_matrix.iloc[-lookback] - 1 of one column
ReturnFromRow(col, start) ==
    IF col[Len(col)] = NaN \/ col[start] = NaN THEN NaN
    ELSE <<Frac(col[Len(col)][1] - col[start][1], col[start][1])>>

\* the column return_12m, return_3m or return_1m: iloc[-lookback] is the
\* row lookback - 1 rows before the last
TrailingReturn(pm, lookback) ==
    [t \in DOMAIN pm |->
        IF safe_lookback(PanelRows(pm), lookback)
        THEN ReturnFromRow(pm[t], PanelRows(pm) - lookback + 1)
        ELSE NaN]

\* the rows on which both log returns are defined, those of rows only
CommonDates(market, stock, rows) ==
    {i \in rows : market[i] # NaN /\ stock[i] # NaN}

\* the sums an ordinary least squares fit of stock on market needs, over
\* the rows common
FitSums(market, stock, common) ==
    LET x == [i \in DOMAIN market |-> IF i \in common THEN market[i][1] ELSE 0]
        y == [i \in DOMAIN market |-> IF i \in common THEN stock[i][1] ELSE 0]
        last == Len(market)
    IN [n |-> Cardinality(common),
        Sx |-> SeqSum(x, 1, last), Sy |-> SeqSum(y, 1, last),
        Sxx |-> SeqSum([i \in DOMAIN market |-> x[i] * x[i]], 1, last),
        Sxy |-> SeqSum([i \in DOMAIN market |-> x[i] * y[i]], 1, last),
        Syy |-> SeqSum([i \in DOMAIN market |-> y[i] * y[i]], 1, last),
        x1 |-> IF common = {} THEN 0 ELSE market[CHOOSE i \in common : TRUE][1]]

\* linear_regression_slope_and_predictions: the slope of the fit, and the
\* mean of the squared residuals times n * n as a fraction.  When the
\* market return is the same on every row the design matrix has rank one
\* and lstsq gives the solution of least norm: the slope is
\* x1 * Sy / (n * (1 + (x1 ln 2)^2)), kept by its parts, and the fitted
\* value is the mean of the stock's returns
linear_regression_slope_and_predictions(f) ==
    LET A == f.n * f.Sxx - f.Sx * f.Sx
        B == f.n * f.Sxy - f.Sx * f.Sy
        C == f.n * f.Syy - f.Sy * f.Sy
    IN  IF A > 0
        THEN [slope |-> [fit |-> "ols", num |-> Frac(B, A).num, den |-> Frac(B, A).den, x |-> 0],
              resid |-> [num |-> Frac(A * C - B * B, A).num,
                         den |-> Frac(A * C - B * B, A).den, n |-> f.n]]
        ELSE [slope |-> [fit |-> "min_norm", num |-> f.x1 * f.Sy, den |-> f.n, x |-> f.x1],
              resid |-> [num |-> C, den |-> 1, n |-> f.n]]

\* log_rets.rolling(window=90).std().iloc[-1] of one column, squared:
\* the sample variance of the last 90 log returns, NaN unless all 90 are
\* defined
RollingVar90(rets) ==
    LET last == Len(rets)
        window == (last - 89)..last
    IN  IF last < 90 \/ \E i \in window : rets[i] = NaN THEN NaN
        ELSE LET v == [i \in DOMAIN rets |-> IF i \in window THEN rets[i][1] ELSE 0]
                 S == SeqSum(v, 1, last)
                 Q == SeqSum([i \in DOMAIN rets |-> v[i] * v[i]], 1, last)
             IN <<Frac(90 * Q - S * S, 90 * 89)>>

\* len(log_rets.dropna(how="all")): the rows with a log return of some
\* ticker
RowsWithReturns(log_rets) ==
    IF DOMAIN log_rets = {} THEN 0
    ELSE Cardinality({i \in 1..PanelRows(log_rets) :
                         \E t \in DOMAIN log_rets : log_rets[t][i] # NaN})

\* a frame without rows and columns
EmptyFrame == [index |-> {}, cols |-> [c \in {} |-> <<>>]]

\* a column of NaN
NaNColumn(index) == [t \in index |-> NaN]

\* BetaOf asking for more than 200 common dates
BetaOfAbove200(market_rets, stock_rets) ==
    LET common_dates == CommonDates(market_rets, stock_rets, DOMAIN market_rets)
    IN  IF Cardinality(common_dates) <= 200
        THEN [beta |-> NaN, residual_vol |-> NaN]
        ELSE LET fit == linear_regression_slope_and_predictions(
                            FitSums(market_rets, stock_rets, common_dates))
             IN [beta |-> <<fit.slope>>, residual_vol |-> <<fit.resid>>]

\* beta and idiosyncratic_vol of one ticker: NaN below 200 common dates
BetaOf(market_rets, stock_rets) ==
    LET common_dates == CommonDates(market_rets, stock_rets, DOMAIN market_rets)
    IN  IF Cardinality(common_dates) < 200
        THEN [beta |-> NaN, residual_vol |-> NaN]
        ELSE LET fit == linear_regression_slope_and_predictions(
                            FitSums(market_rets, stock_rets, common_dates))
             IN [beta |-> <<fit.slope>>, residual_vol |-> <<fit.resid>>]

\* upside_beta of one ticker: the slope over the rows on which the market's
\* log return is positive, NaN below 50 such rows
UpsideBetaOf(market_rets, stock_rets) ==
    LET green_days == {i \in DOMAIN market_rets :
                          market_rets[i] # NaN /\ market_rets[i][1] > 0}
        common == CommonDates(market_rets, stock_rets, green_days)
    IN  IF Cardinality(common) < 50 THEN NaN
        ELSE <<linear_regression_slope_and_predictions(
                   FitSums(market_rets, stock_rets, common)).slope>>

\* the momentum and volatility columns
MomentumColumns(pm, log_rets) ==
    [c \in {"return_12m", "return_3m", "return_1m", "volatility_90d"} |->
        IF c = "return_12m" THEN TrailingReturn(pm, 252)
        ELSE IF c = "return_3m" THEN TrailingReturn(pm, 63)
        ELSE IF c = "return_1m" THEN TrailingReturn(pm, 21)
        ELSE IF RowsWithReturns(log_rets) >= 90
             THEN [t \in DOMAIN pm |-> RollingVar90(log_rets[t])]
             ELSE NaNColumn(DOMAIN pm)]

\* the regression columns, the benchmark being a column of the panel
RegressionColumns(pm, log_rets) ==
    LET market_rets == log_rets[BENCHMARK_TICKER]
    IN  IF CountDefined(market_rets) < 200
        THEN [c \in {"beta", "idiosyncratic_vol", "upside_beta"} |-> NaNColumn(DOMAIN pm)]
        ELSE LET fits == [t \in DOMAIN pm |-> BetaOf(market_rets, log_rets[t])]
             IN [c \in {"beta", "idiosyncratic_vol", "upside_beta"} |->
                    IF c = "beta" THEN [t \in DOMAIN pm |-> fits[t].beta]
                    ELSE IF c = "idiosyncratic_vol"
                    THEN [t \in DOMAIN pm |-> fits[t].residual_vol]
                    ELSE [t \in DOMAIN pm |-> UpsideBetaOf(market_rets, log_rets[t])]]

\* calculate_complex_features: the feature table, one row per ticker that
\* passes the history filter
calculate_complex_features(price_matrix) ==
    IF PanelEmpty(price_matrix) THEN EmptyFrame
    ELSE LET pm == filter_full_history_tickers(price_matrix)
         IN  IF PanelEmpty(pm) THEN EmptyFrame
             ELSE LET log_rets == [t \in DOMAIN pm |-> LogRets(pm[t])]
                      momentum == MomentumColumns(pm, log_rets)
                  IN  IF BENCHMARK_TICKER \notin DOMAIN pm
                      THEN [index |-> DOMAIN pm, cols |-> momentum]
                      ELSE [index |-> DOMAIN pm,
                            cols |-> momentum @@ RegressionColumns(pm, log_rets)]

\* what the download of the benchmark gives: nothing, or its closes on the
\* dates of the panel
NoDownload == [ok |-> FALSE, close |-> <<>>]

\* ensure_spy_history: the panel with the benchmark's column added when it
\* is missing and the download gave a close
ensure_spy_history(price_matrix, download) ==
    IF BENCHMARK_TICKER \in DOMAIN price_matrix \/ PanelEmpty(price_matrix)
    THEN price_matrix
    ELSE IF ~download.ok \/ \A i \in DOMAIN download.close : download.close[i] = NaN
    THEN price_matrix
    ELSE price_matrix @@ (BENCHMARK_TICKER :> download.close)

\* fetch_all_prices: the panel of the price store, the benchmark ensured
fetch_all_prices(store, download) ==
    IF PanelEmpty(store) THEN EmptyPanel ELSE ensure_spy_history(store, download)

\* ---- the Feature Engine as a process ----

\* number of dates ingest_daily_data adds to the price store
MaxIngest == 2

\* the tickers of the price store besides the benchmark
Stocks == {"A", "B"}

\* the closes of the model: the benchmark moves between 1 and 2, staying
\* two days on each; A moves with it every other time and stays put
\* otherwise; B is twice the benchmark
PatternClose(t, i) ==
    IF t = BENCHMARK_TICKER THEN (IF i % 4 \in {1, 2} THEN 1 ELSE 2)
    ELSE IF t = "A" THEN (IF i % 8 \in {3, 4} THEN 4 ELSE 2)
    ELSE (IF i % 4 \in {1, 2} THEN 2 ELSE 4)

\* the column of ticker t over rows dates, without a close on the dates of
\* missing
PatternColumn(t, rows, missing) ==
    [i \in 1..rows |-> IF i \in missing THEN NaN ELSE <<PatternClose(t, i)>>]

\* the panels the Feature Engine starts from: just below 200 log returns
\* or just above 252 rows, with or without the benchmark, A complete or
\* without one close, B listed eleven days late
FeaturePanels ==
    {[t \in tickers |->
        PatternColumn(t, rows,
                      IF t = "A" THEN gap ELSE IF t = "B" THEN 1..11 ELSE {})] :
        tickers \in {Stocks, Stocks \cup {BENCHMARK_TICKER}},
        rows \in {199, 252},
        gap \in {{}, {99}}}

InitFeatures ==
    /\ today = Day0
    /\ perf = [f \in Factors |-> <<>>]
    /\ zstore = EmptyBag
    /\ run = NoRun
    /\ prices \in FeaturePanels
    /\ members = EmptyBag
    /\ crun = NoClassifierRun
    /\ prun = NoPerfRun
    /\ feat = NoFeatures
    /\ wlog = NoWrite

\* ingest_daily_data: one more date, with a close for some of the tickers
IngestDay(first) ==
    /\ PanelRows(prices) < first + MaxIngest
    /\ \E got \in (SUBSET DOMAIN prices) \ {{}} :
          prices' = [t \in DOMAIN prices |->
                        Append(prices[t],
                               IF t \in got
                               THEN <<PatternClose(t, PanelRows(prices) + 1)>>
                               ELSE NaN)]
    /\ feat' = NoFeatures
    /\ UNCHANGED <<today, perf, zstore, run, members, crun, prun, wlog>>

\* the closes a download of the benchmark can give for the dates of the
\* panel
Downloads(rows) ==
    {NoDownload, [ok |-> TRUE, close |-> PatternColumn(BENCHMARK_TICKER, rows, {})]}

\* calculate_features.py run as a script
FeatureRun ==
    /\ \E download \in Downloads(PanelRows(prices)) :
       \E pm \in {fetch_all_prices(prices, download)} :
          feat' = [kind |-> "table", panel |-> pm,
                   table |-> calculate_complex_features(pm)]
    /\ UNCHANGED <<today, perf, zstore, run, prices, members, crun, prun, wlog>>

IngestFeatureDay == \E first \in {199, 252} :
                        /\ PanelRows(prices) >= first
                        /\ PanelRows(prices) - first <= MaxIngest
                        /\ IngestDay(first)

NextFeatures == IngestFeatureDay \/ FeatureRun

SpecFeatures == InitFeatures /\ [][NextFeatures]_vars

\* ---- the Rule Classifier (stat_engine.py) ----

\* the chunk size of the membership insert
member_batch_size == 1000

\* the tickers in the order of the feature table's index
TickerOrder == <<"A", "B", BENCHMARK_TICKER>>

IndexSeq(S) == SelectSeq(TickerOrder, LAMBDA t : t \in S)

\* the columns calculate_fundamental_features gives
FundamentalColumns ==
    {"pe_ratio", "debt_to_equity", "leverage_ratio", "roic", "net_income", "buyback_yield"}

\* calculate_fundamental_features for the tickers of index, fetched[t] being
\* the trailing PE the fetch of ticker t gave (NaN when it failed); the
\* other fields are not given by the fetches of the model
calculate_fundamental_features(index, fetched) ==
    [index |-> index,
     cols |-> [c \in FundamentalColumns |->
                 [t \in index |-> IF c = "pe_ratio" THEN fetched[t] ELSE NaN]]]

\* a < b, a <= b for fractions
RLess(a, b) == a.num * b.den < b.num * a.den

RLeq(a, b) == a.num * b.den <= b.num * a.den

\* the values of a series in ascending order
RECURSIVE SortedValues(_, _)
SortedValues(series, S) ==
    IF S = {} THEN <<>>
    ELSE LET m == CHOOSE t \in S : \A u \in S : RLeq(series[t], series[u])
         IN <<series[m]>> \o SortedValues(series, S \ {m})

\* series.quantile(q), linear interpolation between the two nearest order
\* statistics; NaN for an empty series
Quantile(series, q) ==
    IF DOMAIN series = {} THEN NaN
    ELSE LET v == SortedValues(series, DOMAIN series)
             n == Len(v)
             pos == (n - 1) * q.num
             lo == pos \div q.den
             rest == pos % q.den
         IN  IF rest = 0 THEN <<v[lo + 1]>>
             ELSE LET a == v[lo + 1]
                      b == v[lo + 2]
                  IN <<Frac(a.num * b.den * q.den
                            + rest * (b.num * a.den - a.num * b.den),
                            a.den * b.den * q.den)>>

\* series.rank(pct=True)[ticker]: the average rank among the series,
\* divided by its length
PercentileRank(series, ticker) ==
    LET less == Cardinality({u \in DOMAIN series : RLess(series[u], series[ticker])})
        same == Cardinality({u \in DOMAIN series : series[u] = series[ticker]})
    IN Frac(2 * less + same + 1, 2 * Cardinality(DOMAIN series))

KnownRules == {"top_percentile", "bottom_percentile", "greater_than", "less_than", "equals"}

\* the tickers of the series a rule matches
Matches5(series, rule, threshold) ==
    IF rule = "top_percentile"
    THEN LET cutoff == Quantile(series, Frac(threshold.den - threshold.num, threshold.den))
         IN {t \in DOMAIN series : cutoff # NaN /\ RLeq(cutoff[1], series[t])}
    ELSE IF rule = "bottom_percentile"
    THEN LET cutoff == Quantile(series, threshold)
         IN {t \in DOMAIN series : cutoff # NaN /\ RLeq(series[t], cutoff[1])}
    ELSE IF rule = "greater_than" THEN {t \in DOMAIN series : RLess(threshold, series[t])}
    ELSE IF rule = "less_than" THEN {t \in DOMAIN series : RLess(series[t], threshold)}
    ELSE {t \in DOMAIN series : series[t] = threshold}

\* records whose rank is taken among the matched instruments only
FactorResultsRankAmongMatches(f, df_features, date) ==
    IF f.metric \notin DOMAIN df_features.cols THEN <<>>
    ELSE LET col == df_features.cols[f.metric]
             series == [t \in {u \in df_features.index : col[u] # NaN} |-> col[t][1]]
             matches == Matches5(series, f.rule, f.value)
             matched == [t \in matches |-> series[t]]
         IN [k \in 1..Len(IndexSeq(matches)) |->
                [factor_id |-> f.id, ticker |-> IndexSeq(matches)[k],
                 metric_value |-> series[IndexSeq(matches)[k]],
                 percentile_rank |-> PercentileRank(matched, IndexSeq(matches)[k]),
                 run_date |-> date]]

\* the records one factor definition adds to results_to_upload
FactorResults(f, df_features, date) ==
    IF f.metric \notin DOMAIN df_features.cols THEN <<>>
    ELSE LET col == df_features.cols[f.metric]
             series == [t \in {u \in df_features.index : col[u] # NaN} |-> col[t][1]]
             matches == Matches5(series, f.rule, f.value)
         IN [k \in 1..Len(IndexSeq(matches)) |->
                [factor_id |-> f.id, ticker |-> IndexSeq(matches)[k],
                 metric_value |-> series[IndexSeq(matches)[k]],
                 percentile_rank |-> PercentileRank(series, IndexSeq(matches)[k]),
                 run_date |-> date]]

\* a definition whose evaluation raises: its metric is a column and either
\* its rule is none of the five, so matches stays a list, which has no
\* items(), or it is top_percentile without a value, so 1.0 - None raises
Raises(f, df_features) ==
    /\ f.metric \in DOMAIN df_features.cols
    /\ \/ f.rule \notin KnownRules
       \/ f.rule = "top_percentile" /\ f.value = NaN

\* STEP 3: the records of the definitions factors[i..], in order
RECURSIVE ApplyLogic(_, _, _, _)
ApplyLogic(factors, i, df_features, date) ==
    IF i > Len(factors) THEN <<>>
    ELSE FactorResults(factors[i], df_features, date)
         \o ApplyLogic(factors, i + 1, df_features, date)

\* the chunks of STEP 4 that are attempted, the inserts of those in failed
\* raising: the exception is not caught, so the loop ends with the first
\* of them
RECURSIVE MemberInsertAttempts(_, _, _)
MemberInsertAttempts(chunks, b, failed) ==
    IF b > chunks THEN <<>>
    ELSE IF b \in failed THEN <<b>>
    ELSE <<b>> \o MemberInsertAttempts(chunks, b + 1, failed)

MemberChunks(results) == (Len(results) + member_batch_size - 1) \div member_batch_size

MemberChunk(results, b) ==
    SubSeq(results, (b - 1) * member_batch_size + 1,
           IF b * member_batch_size < Len(results)
           THEN b * member_batch_size ELSE Len(results))

\* the table after the attempted chunks that did not fail
RECURSIVE InsertChunks(_, _, _, _, _)
InsertChunks(store, results, attempts, k, failed) ==
    IF k > Len(attempts) THEN store
    ELSE InsertChunks(IF attempts[k] \in failed THEN store
                      ELSE store (+) BagOfSeq(MemberChunk(results, attempts[k])),
                      results, attempts, k + 1, failed)

\* the rows of the table whose run_date is not date
WithoutRunDate(store, date) ==
    [r \in {x \in DOMAIN store : x.run_date # date} |-> store[r]]

\* an upload that clears the rows of today whatever the list holds
UploadResultsAlwaysDelete(store, results, date, failed) ==
    LET attempts == MemberInsertAttempts(MemberChunks(results), 1, failed)
    IN [store |-> InsertChunks(WithoutRunDate(store, date), results, attempts, 1, failed),
        ops |-> <<"delete">> \o [k \in DOMAIN attempts |-> "insert"],
        attempts |-> attempts,
        outcome |-> IF \E k \in DOMAIN attempts : attempts[k] \in failed
                    THEN "raised" ELSE "None"]

\* STEP 4: nothing for an empty list; otherwise delete the rows of today,
\* then insert chunk after chunk
UploadResults(store, results, date, failed) ==
    IF results = <<>>
    THEN [store |-> store, ops |-> <<>>, attempts |-> <<>>, outcome |-> "None"]
    ELSE LET attempts == MemberInsertAttempts(MemberChunks(results), 1, failed)
         IN [store |-> InsertChunks(WithoutRunDate(store, date), results, attempts, 1, failed),
             ops |-> <<"delete">> \o [k \in DOMAIN attempts |-> "insert"],
             attempts |-> attempts,
             outcome |-> IF \E k \in DOMAIN attempts : attempts[k] \in failed
                         THEN "raised" ELSE "None"]

\* the definitions before the first one that raises
RECURSIVE EvaluatedBefore(_, _, _)
EvaluatedBefore(factors, i, df_features) ==
    IF i > Len(factors) \/ Raises(factors[i], df_features) THEN <<>>
    ELSE <<factors[i]>> \o EvaluatedBefore(factors, i + 1, df_features)

\* an engine that uploads what it has each time a definition is done, so
\* that the records of the definitions before one that raises are written
run_statistical_engineWritingAsItGoes(store, panel, download, fetched, factors, date, failed) ==
    LET pm == fetch_all_prices(panel, download)
        none == [store |-> store, ops |-> <<>>, attempts |-> <<>>,
                 outcome |-> "None", results |-> <<>>, features |-> EmptyFrame]
    IN  IF PanelEmpty(pm) THEN none
        ELSE LET complex == calculate_complex_features(pm)
             IN  IF complex.index = {}
                 THEN [none EXCEPT !.outcome = "raised"]
                 ELSE LET fundamental == calculate_fundamental_features(complex.index, fetched)
                          df_features == [index |-> complex.index,
                                          cols |-> complex.cols @@ fundamental.cols]
                          raises == \E i \in DOMAIN factors : Raises(factors[i], df_features)
                          results == ApplyLogic(EvaluatedBefore(factors, 1, df_features),
                                                1, df_features, date)
                          up == UploadResults(store, results, date, failed)
                      IN [store |-> up.store, ops |-> up.ops,
                          attempts |-> up.attempts,
                          outcome |-> IF raises THEN "raised" ELSE up.outcome,
                          results |-> results, features |-> df_features]

\* run_statistical_engine: what it leaves in the table, the requests it
\* sent to the table, and what its caller sees (the value None, or an
\* exception)
run_statistical_engine(store, panel, download, fetched, factors, date, failed) ==
    LET pm == fetch_all_prices(panel, download)
        none == [store |-> store, ops |-> <<>>, attempts |-> <<>>,
                 outcome |-> "None", results |-> <<>>, features |-> EmptyFrame]
    IN  IF PanelEmpty(pm) THEN none
        ELSE LET complex == calculate_complex_features(pm)
             IN  IF complex.index = {}
                 THEN [none EXCEPT !.outcome = "raised"]
                 ELSE LET fundamental == calculate_fundamental_features(complex.index, fetched)
                          df_features == [index |-> complex.index,
                                          cols |-> complex.cols @@ fundamental.cols]
                      IN  IF \E i \in DOMAIN factors : Raises(factors[i], df_features)
                          THEN [none EXCEPT !.outcome = "raised", !.features = df_features]
                          ELSE LET results == ApplyLogic(factors, 1, df_features, date)
                                   up == UploadResults(store, results, date, failed)
                               IN [store |-> up.store, ops |-> up.ops,
                                   attempts |-> up.attempts, outcome |-> up.outcome,
                                   results |-> results, features |-> df_features]

\* ---- the Performance Aggregator (calculate_factor_performance.py) ----

\* the trading days of each period
PERIODS ==
    [perf_1d |-> 1, perf_5d |-> 5, perf_1m |-> 21,
     perf_3m |-> 63, perf_6m |-> 126, perf_1y |-> 252]

\* the run dates of a membership table
RunDates(store) == {r.run_date : r \in DOMAIN store}

\* the latest run date of a table that has rows
LatestRunDate(store) == CHOOSE d \in RunDates(store) : \A e \in RunDates(store) : e <= d

\* the rows of the latest run date of a set of result rows
LatestRows(rows) ==
    IF rows = {} THEN {}
    ELSE {r \in rows : \A e \in rows : e.run_date <= r.run_date}

\* get_factor_holdings: per factor, the tickers of the latest run of the
\* membership table, joined with those of the latest run of the thematic
\* table (a set of rows), each table having its own latest run
get_factor_holdings(store, thematic) ==
    LET stat == IF DOMAIN store = {} THEN {}
                ELSE {r \in DOMAIN store : r.run_date = LatestRunDate(store)}
        them == LatestRows(thematic)
        ids == {r.factor_id : r \in stat \cup them}
    IN [fid \in ids |->
           {r.ticker : r \in {x \in stat : x.factor_id = fid}}
           \cup {r.ticker : r \in {x \in them : x.factor_id = fid}}]

\* the sum of the fractions vals[t], t in S
RECURSIVE FracSum(_, _)
FracSum(vals, S) ==
    IF S = {} THEN Frac(0, 1)
    ELSE LET t == CHOOSE u \in S : TRUE
             rest == FracSum(vals, S \ {t})
         IN Frac(vals[t].num * rest.den + rest.num * vals[t].den, vals[t].den * rest.den)

\* a period return that divides the sum by the number of member tickers
calculate_period_returnOverMembers(price_matrix, tickers, days) ==
    IF PanelRows(price_matrix) <= days THEN NaN
    ELSE LET valid_tickers == tickers \cap DOMAIN price_matrix
             start == PanelRows(price_matrix) - days
             returns == [t \in valid_tickers |-> ReturnFromRow(price_matrix[t], start)]
             defined == {t \in valid_tickers : returns[t] # NaN}
             total == FracSum([t \in defined |-> returns[t][1]], defined)
         IN  IF defined = {} THEN NaN
             ELSE <<Frac(total.num, total.den * Cardinality(tickers))>>

\* calculate_period_return: the mean, over the tickers of the panel whose
\* first and last close of the period are both defined, of last / first - 1
calculate_period_return(price_matrix, tickers, days) ==
    IF PanelRows(price_matrix) <= days THEN NaN
    ELSE LET valid_tickers == tickers \cap DOMAIN price_matrix
             start == PanelRows(price_matrix) - days
             returns == [t \in valid_tickers |-> ReturnFromRow(price_matrix[t], start)]
             defined == {t \in valid_tickers : returns[t] # NaN}
             total == FracSum([t \in defined |-> returns[t][1]], defined)
         IN  IF defined = {} THEN NaN
             ELSE <<Frac(total.num, total.den * Cardinality(defined))>>

\* calculate_all_factor_performance: one row per factor of the holdings
calculate_all_factor_performance(price_matrix, holdings) ==
    [factor_id \in DOMAIN holdings |->
        [num_holdings |-> Cardinality(holdings[factor_id]),
         perf |-> [p \in DOMAIN PERIODS |->
                     calculate_period_return(price_matrix, holdings[factor_id], PERIODS[p])]]]

\* run_factor_performance: the table it leaves (of each record, the run
\* date and the 1-day return the Z-Score Engine reads), the requests it
\* sent to the table, and what its caller sees; the upload fails at the
\* request upfail ("none" for neither), which the run reports and survives
run_factor_performance(table, store, thematic, panel, download, date, upfail) ==
    LET holdings == get_factor_holdings(store, thematic)
        pm == fetch_all_prices(panel, download)
        none == [table |-> table, ops |-> <<>>, outcome |-> "None",
                 holdings |-> holdings, panel |-> pm, df |-> <<>>]
    IN  IF DOMAIN holdings = {} THEN [none EXCEPT !.panel = EmptyPanel]
        ELSE IF PanelEmpty(pm) THEN none
        ELSE LET df == calculate_all_factor_performance(pm, holdings)
                 value == [f \in DOMAIN df |-> df[f].perf.perf_1d]
                 full == upload_factor_performance(table, date, DOMAIN df, value)
             IN [table |-> IF upfail = "delete" THEN table
                           ELSE IF upfail = "insert"
                           THEN [f \in Factors |-> DeleteRunDate(table[f], date)]
                           ELSE full,
                 ops |-> IF upfail = "delete" THEN <<"delete">> ELSE <<"delete", "insert">>,
                 outcome |-> "frame",
                 holdings |-> holdings, panel |-> pm, df |-> df]

\* ---- the Rule Classifier and the Performance Aggregator as processes ----

\* the rows of the factors table the active STATISTICAL definitions of a
\* run are among
FactorDefinitions ==
    {[id |-> 1, metric |-> "return_1m", rule |-> "less_than", value |-> Frac(0, 1)],
     [id |-> 1, metric |-> "beta", rule |-> "top_percentile", value |-> Frac(1, 10)],
     [id |-> 2, metric |-> "return_1m", rule |-> "bottom_percentile", value |-> Frac(1, 2)]}

\* the active definitions a run can find: at most one per factor
FactorTables ==
    {S \in SUBSET FactorDefinitions : \A f, g \in S : f.id = g.id => f = g}

\* the definitions of a table in the order of their ids
RECURSIVE ById(_)
ById(S) ==
    IF S = {} THEN <<>>
    ELSE LET f == CHOOSE g \in S : \A h \in S : g.id <= h.id
         IN <<f>> \o ById(S \ {f})

\* the trailing PEs the fundamentals fetches can give
Fetches(index) ==
    {[t \in index |-> IF t = "A" THEN <<Frac(15, 1)>> ELSE NaN]}

\* the thematic tables a performance run can find
ThematicTables == {{}, {[factor_id |-> 2, ticker |-> "B", run_date |-> Day0]}}

\* the price stores the two processes start from
StorePanels ==
    {EmptyPanel}
    \cup {[t \in tickers |-> PatternColumn(t, 23, {})] :
            tickers \in {Stocks, Stocks \cup {BENCHMARK_TICKER}}}

\* the membership table a classifier run of the day before left
YesterdaysMembers(panel) ==
    run_statistical_engine(EmptyBag, panel, NoDownload,
                           [t \in DOMAIN panel |-> NaN],
                           ById({f \in FactorDefinitions : f.metric = "return_1m"}),
                           Day0 - 1, {}).store

InitStores ==
    /\ today = Day0
    /\ perf = [f \in Factors |-> <<>>]
    /\ zstore = EmptyBag
    /\ run = NoRun
    /\ prices \in StorePanels
    /\ members \in {EmptyBag, YesterdaysMembers(prices)}
    /\ crun = NoClassifierRun
    /\ prun = NoPerfRun
    /\ feat = NoFeatures
    /\ wlog = NoWrite

\* what a run leaves for the next one to be compared with
Summary(r) ==
    IF r.kind = "none" THEN r
    ELSE [kind |-> "run", fatal |-> r.fatal, outcome |-> r.outcome]

\* stat_engine.py run as a script, the active definitions being one of
\* tables
ClassifierRunFrom(tables) ==
    /\ \E download \in Downloads(PanelRows(prices)) :
       \E table \in tables :
       \E failed \in SUBSET {1} :
       \E pm \in {fetch_all_prices(prices, download)} :
       \E fetched \in Fetches(DOMAIN pm) :
       \E r \in {run_statistical_engine(members, prices, download, fetched,
                                        ById(table), today, failed)} :
          /\ members' = r.store
          /\ crun' = [kind |-> "run", date |-> today,
                      panel_empty |-> PanelEmpty(pm),
                      factors |-> {f.id : f \in table},
                      benchmark |-> IF PanelEmpty(pm) THEN "none"
                                    ELSE IF BENCHMARK_TICKER \in DOMAIN pm
                                    THEN "obtained" ELSE "unobtainable",
                      fatal |-> PanelEmpty(pm) \/ table = {},
                      classified |-> r.features # EmptyFrame /\ table # {},
                      raising |-> \E f \in table : Raises(f, r.features),
                      results |-> r.results,
                      ops |-> r.ops, outcome |-> r.outcome,
                      prev |-> Summary(crun)]
          /\ wlog' = [kind |-> "membership", chunks |-> MemberChunks(r.results),
                      failed |-> failed, attempts |-> r.attempts]
    /\ prun' = NoPerfRun
    /\ UNCHANGED <<today, perf, zstore, run, prices, feat>>

\* calculate_factor_performance.py run as a script, the thematic table
\* being one of tables
PerfRunFrom(tables) ==
    /\ \E download \in Downloads(PanelRows(prices)) :
       \E thematic \in tables :
       \E upfail \in {"none", "delete", "insert"} :
       \E r \in {run_factor_performance(perf, members, thematic, prices,
                                        download, today, upfail)} :
          /\ perf' = r.table
          /\ prun' = [kind |-> "run", date |-> today,
                      fatal |-> r.df = <<>>,
                      thematic |-> thematic,
                      holdings |-> r.holdings, panel |-> r.panel, df |-> r.df,
                      ops |-> r.ops, outcome |-> r.outcome,
                      uploaded |-> r.df # <<>> /\ upfail = "none",
                      first |-> IF /\ prun.kind = "run"
                                   /\ prun.uploaded
                                   /\ prun.date = today
                                   /\ prun.holdings = r.holdings
                                   /\ prun.panel = r.panel
                                THEN <<perf>> ELSE <<>>,
                      prev |-> Summary(prun)]
    /\ run' = NoRun
    /\ crun' = NoClassifierRun
    /\ wlog' = NoWrite
    /\ UNCHANGED <<today, zstore, prices, members, feat>>

ClassifierRun == ClassifierRunFrom(FactorTables)

PerfRunLogged == PerfRunFrom(ThematicTables)

NextStores == ClassifierRun \/ PerfRunLogged

SpecStores == InitStores /\ [][NextStores]_vars

\* ---- the Rule Classifier on definitions that raise ----

\* definitions whose evaluation raises: a rule tag outside the five known
\* rules, and a top_percentile without a value
RaisingDefinitions ==
    {[id |-> 2, metric |-> "return_1m", rule |-> "between", value |-> Frac(0, 1)],
     [id |-> 3, metric |-> "beta", rule |-> "top_percentile", value |-> NaN]}

\* the active definitions a run can find, at most one per factor
RaisingTables ==
    {S \in SUBSET (FactorDefinitions \cup RaisingDefinitions) :
        \A f, g \in S : f.id = g.id => f = g}

ClassifierRunRaising == ClassifierRunFrom(RaisingTables)

NextRaising == ClassifierRunRaising

SpecRaising == InitStores /\ [][NextRaising]_vars

\* ---- the Performance Aggregator and the Feature Engine on short panels ----

\* the numbers of dates the short price stores start with: a panel of h or
\* h + 1 dates is within MaxIngest dates of each, for h = 5 and 21
ShortRows == {5, 20}

ShortPanels ==
    {[t \in Stocks |-> PatternColumn(t, rows, {})] : rows \in ShortRows}

\* a row of the membership table
MemberRow(fid, t, date) ==
    [factor_id |-> fid, ticker |-> t, metric_value |-> Frac(0, 1),
     percentile_rank |-> Frac(1, 2), run_date |-> date]

\* the membership tables earlier classifier runs left
ShortMembers ==
    {EmptyBag,
     SetToBag({MemberRow(1, "A", Day0), MemberRow(1, "B", Day0)}),
     SetToBag({MemberRow(1, "A", Day0 - 1), MemberRow(2, "B", Day0 - 1)})}

\* a row of the thematic table
ThematicRow(fid, t, date) == [factor_id |-> fid, ticker |-> t, run_date |-> date]

\* the thematic tables a run can find; C has no prices
ShortThematics ==
    {{},
     {ThematicRow(1, "C", Day0)},
     {ThematicRow(1, "A", Day0), ThematicRow(1, "C", Day0), ThematicRow(2, "B", Day0 - 1)}}

InitShort ==
    /\ today = Day0
    /\ perf = [f \in Factors |-> <<>>]
    /\ zstore = EmptyBag
    /\ run = NoRun
    /\ prices \in ShortPanels
    /\ members \in ShortMembers
    /\ crun = NoClassifierRun
    /\ prun = NoPerfRun
    /\ feat = NoFeatures
    /\ wlog = NoWrite

IngestShortDay == \E first \in ShortRows :
                      /\ PanelRows(prices) >= first
                      /\ PanelRows(prices) - first <= MaxIngest
                      /\ IngestDay(first)

PerfRunShort == PerfRunFrom(ShortThematics)

NextShort == IngestShortDay \/ FeatureRun \/ PerfRunShort

SpecShort == InitShort /\ [][NextShort]_vars

\* ---- calculate_fundamental_features as a pool of workers ----

\* the size of the thread pool
max_workers == 10

\* what the data source gives for one ticker: an exception, or the fields
\* of info (NaN for a field it does not give)
FetchInfos ==
    {[ok |-> FALSE, trailingPE |-> NaN, debtToEquity |-> NaN, returnOnCapital |-> NaN,
      returnOnEquity |-> NaN, netIncomeToCommon |-> NaN, marketCap |-> NaN,
      sharesRepurchased |-> NaN],
     [ok |-> TRUE, trailingPE |-> <<Frac(15, 1)>>, debtToEquity |-> <<Frac(50, 1)>>,
      returnOnCapital |-> NaN, returnOnEquity |-> <<Frac(3, 10)>>,
      netIncomeToCommon |-> <<Frac(7, 1)>>, marketCap |-> <<Frac(100, 1)>>,
      sharesRepurchased |-> <<Frac(5, 1)>>],
     [ok |-> TRUE, trailingPE |-> NaN, debtToEquity |-> NaN,
      returnOnCapital |-> <<Frac(1, 5)>>, returnOnEquity |-> NaN,
      netIncomeToCommon |-> NaN, marketCap |-> <<Frac(100, 1)>>,
      sharesRepurchased |-> NaN]}

\* a value that is neither None nor zero
Truthy(cell) == cell # NaN /\ cell[1].num # 0

\* _fetch_single_ticker_fundamentals: the row of one ticker, every field
\* undefined when the fetch raised
fetch_single_ticker_fundamentals(ticker, info) ==
    IF ~info.ok
    THEN [ticker |-> ticker, pe_ratio |-> NaN, debt_to_equity |-> NaN,
          leverage_ratio |-> NaN, roic |-> NaN, net_income |-> NaN,
          buyback_yield |-> NaN]
    ELSE [ticker |-> ticker,
          pe_ratio |-> info.trailingPE,
          debt_to_equity |-> info.debtToEquity,
          leverage_ratio |-> info.debtToEquity,
          roic |-> IF info.returnOnCapital # NaN THEN info.returnOnCapital
                   ELSE IF info.returnOnEquity = NaN THEN NaN
                   ELSE IF Truthy(info.debtToEquity) /\ info.debtToEquity[1].num > 0
                   THEN <<Frac(info.returnOnEquity[1].num * 100 * info.debtToEquity[1].den,
                               info.returnOnEquity[1].den
                               * (100 * info.debtToEquity[1].den + info.debtToEquity[1].num))>>
                   ELSE info.returnOnEquity,
          net_income |-> info.netIncomeToCommon,
          buyback_yield |-> IF /\ Truthy(info.marketCap)
                               /\ Truthy(info.sharesRepurchased)
                               /\ info.marketCap[1].num > 0
                            THEN <<Frac(info.sharesRepurchased[1].num * info.marketCap[1].den,
                                        info.sharesRepurchased[1].den * info.marketCap[1].num)>>
                            ELSE NaN]

\* a frame whose k-th row is labelled with the k-th requested ticker
FundamentalFramePositional(tickers, results) ==
    [index |-> Range(tickers),
     cols |-> [c \in FundamentalColumns |->
                 [t \in Range(tickers) |->
                     results[CHOOSE k \in DOMAIN tickers : tickers[k] = t][c]]]]

\* pd.DataFrame(results).set_index('ticker'): each row under its own
\* ticker
FundamentalFrame(tickers, results) ==
    [index |-> {results[k].ticker : k \in DOMAIN results},
     cols |-> [c \in FundamentalColumns |->
                 [t \in {results[k].ticker : k \in DOMAIN results} |->
                     results[CHOOSE k \in DOMAIN results : results[k].ticker = t][c]]]]

\* the lists of tickers fundamentals are requested for
TickerLists == {IndexSeq(S) : S \in SUBSET Range(TickerOrder)}

InitFundamentals ==
    /\ today = Day0
    /\ perf = [f \in Factors |-> <<>>]
    /\ zstore = EmptyBag
    /\ run = NoRun
    /\ prices = EmptyPanel
    /\ members = EmptyBag
    /\ crun = NoClassifierRun
    /\ prun = NoPerfRun
    /\ feat \in {[kind |-> "fundamentals", tickers |-> tickers,
                  pending |-> Range(tickers), running |-> {},
                  fetched |-> <<>>, results |-> <<>>,
                  outcome |-> "running", df |-> EmptyFrame] : tickers \in TickerLists}
    /\ wlog = NoWrite

\* a worker of the pool takes the fetch of one ticker
StartFetch ==
    /\ feat.kind = "fundamentals"
    /\ Cardinality(feat.running) < max_workers
    /\ \E t \in feat.pending :
          feat' = [feat EXCEPT !.pending = @ \ {t}, !.running = @ \cup {t}]
    /\ UNCHANGED <<today, perf, zstore, run, prices, members, crun, prun, wlog>>

\* the fetch of one ticker completes, with what the data source gave, and
\* as_completed hands its row to the collecting loop
CompleteFetch ==
    /\ feat.kind = "fundamentals"
    /\ \E t \in feat.running :
       \E info \in FetchInfos :
          feat' = [feat EXCEPT !.running = @ \ {t},
                               !.fetched = (t :> info) @@ @,
                               !.results = Append(@, fetch_single_ticker_fundamentals(t, info))]
    /\ UNCHANGED <<today, perf, zstore, run, prices, members, crun, prun, wlog>>

\* every fetch has completed: the frame is built, which raises KeyError
\* when there is no row to take the ticker column from
BuildFrame ==
    /\ feat.kind = "fundamentals"
    /\ feat.outcome = "running"
    /\ feat.pending = {} /\ feat.running = {}
    /\ feat' = IF feat.results = <<>>
               THEN [feat EXCEPT !.outcome = "raised"]
               ELSE [feat EXCEPT !.outcome = "frame",
                                 !.df = FundamentalFrame(feat.tickers, feat.results)]
    /\ UNCHANGED <<today, perf, zstore, run, prices, members, crun, prun, wlog>>

NextFundamentals == StartFetch \/ CompleteFetch \/ BuildFrame

SpecFundamentals == InitFundamentals /\ [][NextFundamentals]_vars

\* ---- the batched writes as processes ----

\* the insert batches upload_zscores attempts: a failed insert is reported
\* and the loop goes on to the next batch
InsertAttempts(batches, failed) == [b \in 1..batches |-> b]

\* number of chunks of the largest membership upload
MaxChunks == 3

\* the records STEP 3 leaves for a definition that n instruments match,
\* their metric values 1 to n
UniverseResults(n, date) ==
    [k \in 1..n |-> [factor_id |-> 1, ticker |-> k, metric_value |-> Frac(k, 1),
                     percentile_rank |-> Frac(k, n), run_date |-> date]]

\* STEP 4 of run_statistical_engine for a universe whose matches fill more
\* than one chunk, the inserts of the chunks in failed raising
MembershipUpload ==
    /\ \E chunks \in 2..MaxChunks :
       \E failed \in SUBSET (1..chunks) :
       \E results \in {UniverseResults((chunks - 1) * member_batch_size + 1, today)} :
       \E up \in {UploadResults(members, results, today, failed)} :
          /\ members' = up.store
          /\ wlog' = [kind |-> "membership", chunks |-> MemberChunks(results),
                      failed |-> failed, attempts |-> up.attempts]
    /\ UNCHANGED <<today, perf, zstore, run, prices, crun, prun, feat>>

\* main() of calculate_zscores.py, the inserts of the batches in insFailed
\* failing
ZRunChunks ==
    /\ \E c \in {ZComputed} :
       \E insFailed \in SUBSET (1..NumBatches(c.results)) :
          /\ run' = c
          /\ zstore' = upload_zscores(zstore, c.results, c.backfilled_factors, {}, insFailed)
          /\ wlog' = [kind |-> "zscores", chunks |-> NumBatches(c.results),
                      failed |-> insFailed,
                      attempts |-> InsertAttempts(NumBatches(c.results), insFailed)]
    /\ UNCHANGED <<today, perf, prices, members, crun, prun, feat>>

NextChunks == MembershipUpload \/ ZRunChunks

SpecChunks == Init /\ [][NextChunks]_vars

\* ---- STEP 3 of the Rule Classifier as a process ----

\* the largest metric value of the universes the rules are applied to
MaxMetric == 3

\* the metric the definitions of RuleFactors read
RuleMetric == "volatility_90d"

\* feature tables of three instruments whose metric is one of 1..MaxMetric
\* or undefined
RuleTables ==
    {[index |-> Range(TickerOrder), cols |-> (RuleMetric :> col)] :
        col \in [Range(TickerOrder) ->
                    {NaN} \cup {<<Frac(v, 1)>> : v \in 1..MaxMetric}]}

\* the active definitions of the run: one per rule
RuleFactors ==
    <<[id |-> 1, metric |-> RuleMetric, rule |-> "top_percentile", value |-> Frac(1, 10)],
      [id |-> 2, metric |-> RuleMetric, rule |-> "bottom_percentile", value |-> Frac(1, 10)],
      [id |-> 3, metric |-> RuleMetric, rule |-> "greater_than", value |-> Frac(2, 1)],
      [id |-> 4, metric |-> RuleMetric, rule |-> "less_than", value |-> Frac(2, 1)],
      [id |-> 5, metric |-> RuleMetric, rule |-> "equals", value |-> Frac(2, 1)]>>

InitRules ==
    /\ today = Day0
    /\ perf = [f \in Factors |-> <<>>]
    /\ zstore = EmptyBag
    /\ run = NoRun
    /\ prices = EmptyPanel
    /\ members = EmptyBag
    /\ crun = [kind |-> "step3", i |-> 0, results |-> <<>>]
    /\ prun = NoPerfRun
    /\ feat \in {[kind |-> "table", panel |-> EmptyPanel, table |-> tab] : tab \in RuleTables}
    /\ wlog = NoWrite

\* one turn of the loop of STEP 3: the next definition is evaluated and
\* its records are appended to results_to_upload
ApplyLogicStep ==
    /\ crun.kind = "step3"
    /\ crun.i < Len(RuleFactors)
    /\ crun' = [kind |-> "step3", i |-> crun.i + 1,
                results |-> crun.results
                            \o FactorResults(RuleFactors[crun.i + 1], feat.table, today)]
    /\ UNCHANGED <<today, perf, zstore, run, prices, members, prun, feat, wlog>>

NextRules == ApplyLogicStep

SpecRules == InitRules /\ [][NextRules]_vars

\* ---- what the claims speak about ----

\* the records of factor f among the results of a run
ResultsOf(results, f) == SelectSeq(results, LAMBDA r : r.factor_id = f)

\* the record a full backfill computes for the latest date, if any
BackfillAtLatest(f, h) ==
    SelectSeq(BackfillRecords(f, h), LAMBDA r : r.date = LatestDate(h))

PersistedCount(store, f) == BagCardinality(RowsOf(store, f))

\* C1: for every factor with at least ROLLING_WINDOW performance rows, the
\* steady-state update and the full backfill over the same history agree on
\* the latest date T: both emit a record for T with the same zscore, or
\* neither emits one (also with undefined perf_1d inside the trailing window)
C1_BackfillAgreesWithDaily ==
    \A f \in Factors :
        Len(perf[f]) >= ROLLING_WINDOW
        => DailyRecords(f, perf[f]) = BackfillAtLatest(f, perf[f])

\* C2: a complete run handles each factor that has performance rows in the
\* one way its two counts decide: fewer than ROLLING_WINDOW rows: nothing
\* emitted, not backfilled, none of its persisted rows touched; enough rows
\* and fewer than ROLLING_WINDOW persisted z-scores: backfilled, its records
\* the whole rolling series; otherwise not backfilled, its records the
\* single-day update
C2_ModeByCounts ==
    run.kind = "complete" =>
        \A f \in Factors :
            perf[f] # <<>> =>
                LET rows == Len(perf[f])
                    persisted == PersistedCount(run.before, f)
                    listed == InSeq(f, run.backfilled_factors)
                    emitted == ResultsOf(run.results, f)
                IN  /\ rows < ROLLING_WINDOW =>
                        /\ emitted = <<>>
                        /\ ~listed
                        /\ RowsOf(zstore, f) = RowsOf(run.before, f)
                    /\ (rows >= ROLLING_WINDOW /\ persisted < ROLLING_WINDOW) =>
                        /\ listed
                        /\ emitted = BackfillRecords(f, perf[f])
                    /\ (rows >= ROLLING_WINDOW /\ persisted >= ROLLING_WINDOW) =>
                        /\ ~listed
                        /\ emitted = DailyRecords(f, perf[f])

\* C2 witness: one complete run that skipped a factor or updated one for the
\* day, while it backfilled another
C2_Witness ==
    /\ run.kind = "complete"
    /\ \E f, g \in Factors :
          /\ run.mode[f] = "daily"
          /\ run.mode[g] = "backfill"
          /\ PersistedCount(run.before, f) >= ROLLING_WINDOW
          /\ PersistedCount(run.before, g) < ROLLING_WINDOW

\* C3: after a complete run that handled factor f in NEEDS_BACKFILL, the
\* persisted records of f are exactly the series recomputed in that run
C3_BackfillReplacesHistory ==
    run.kind = "complete" =>
        \A f \in Factors :
            run.mode[f] = "backfill"
            => RowsOf(zstore, f) = BagOfSeq(ResultsOf(run.results, f))

\* C4: a complete run that handled factor f in STEADY_STATE leaves every
\* persisted record of f dated other than f's latest performance date as it
\* was
C4_DailyTouchesOnlyToday ==
    run.kind = "complete" =>
        \A f \in Factors :
            run.mode[f] = "daily" =>
                \A r \in DOMAIN RowsOf(run.before, f) :
                    r.date # LatestDate(perf[f])
                    => r \in DOMAIN zstore /\ zstore[r] = run.before[r]

\* the defined perf_1d values among the last ROLLING_WINDOW rows of h
RecentValues(h) ==
    {h[i].perf_1d : i \in (Len(h) - ROLLING_WINDOW + 1)..Len(h)} \ {NaN}

C6_SteadyStateIsKept ==
    run.kind = "complete" =>
        \A f \in Factors :
            PersistedCount(run.before, f) >= ROLLING_WINDOW
            => PersistedCount(zstore, f) >= ROLLING_WINDOW

\* the data of factor f alone
OnlyFactor(table, f) == [g \in Factors |-> IF g = f THEN table[g] ELSE <<>>]

\* the table a complete run leaves when it starts from the data of factor f
\* alone
SoloRun(f) ==
    LET store == RowsOf(run.before, f)
        out == calculate_zscores_smart(OnlyFactor(perf, f),
                                       get_zscore_counts_per_factor(store))
    IN upload_zscores(store, out.results, out.backfilled_factors, {}, {})

\* C7 as stated: a backfill of the scenario series with its one spike on day
\* 260 emits nine records, for days 252 to 260, the last with the z-score of
\* the steady-state update
C7_BackfillEmitsNine ==
    (run.kind = "complete" /\ run.mode[1] = "backfill"
     /\ perf[1] = ScenarioHistory({ScenarioDays})) =>
        LET emitted == ResultsOf(run.results, 1)
        IN  /\ Len(emitted) = ScenarioDays - ROLLING_WINDOW + 1
            /\ \A i \in DOMAIN emitted : emitted[i].date = ROLLING_WINDOW + i - 1
            /\ <<emitted[Len(emitted)]>> = DailyRecords(1, perf[1])

\* C7 amended: a backfill of that series emits one record only, for day
\* 260 (the windows of days 252 to 259 are constant), and it is the record
\* of the steady-state update, whose z-score is 251 / sqrt(252) > 0
C7_BackfillEmitsDay260 ==
    (run.kind = "complete" /\ run.mode[1] = "backfill"
     /\ perf[1] = ScenarioHistory({ScenarioDays})) =>
        LET emitted == ResultsOf(run.results, 1)
        IN  /\ Len(emitted) = 1
            /\ emitted[1].date = ScenarioDays
            /\ emitted = DailyRecords(1, perf[1])
            /\ emitted[1].zscore = [sgn |-> 1, num |-> 251 * 251, den |-> 252]

\* C7 witness: a complete run has backfilled the scenario series
C7_Witness ==
    /\ run.kind = "complete"
    /\ run.mode[1] = "backfill"
    /\ perf[1] = ScenarioHistory({ScenarioDays})
    /\ ResultsOf(run.results, 1) # <<>>

\* the dates of the persisted records of factor f
PersistedDates(store, f) == {r.date : r \in DOMAIN RowsOf(store, f)}

\* C8 as stated: for performance dates d1 < d2 < d3 of a factor, d1 with at
\* least ROLLING_WINDOW rows up to it, a persisted record for d1 and for d3
\* comes with one for d2
C8_NoGaps ==
    \A f \in Factors :
        LET dates == PersistedDates(zstore, f)
            has(i) == perf[f][i].run_date \in dates
        IN  \A i2 \in (ROLLING_WINDOW + 1)..(Len(perf[f]) - 1) :
                (/\ \E i1 \in ROLLING_WINDOW..(i2 - 1) : has(i1)
                 /\ \E i3 \in (i2 + 1)..Len(perf[f]) : has(i3))
                => has(i2)

\* the dates whose trailing ROLLING_WINDOW rows all have a defined perf_1d,
\* not all of them equal
FullVaryingDates(h) ==
    {h[t].run_date : t \in {u \in ROLLING_WINDOW..Len(h) :
        LET w == {h[i].perf_1d : i \in (u - ROLLING_WINDOW + 1)..u}
        IN NaN \notin w /\ Cardinality(w) >= 2}}

\* C8 amended: a complete run that backfilled factor f emitted one record
\* for each performance date of f whose trailing ROLLING_WINDOW rows are all
\* defined and not all equal, and for no other date: a date between two
\* such dates that is not one itself is a hole
C8_BackfillHolesAreUndefined ==
    run.kind = "complete" =>
        \A f \in Factors :
            run.mode[f] = "backfill" =>
                LET emitted == ResultsOf(run.results, f)
                IN  /\ {emitted[i].date : i \in DOMAIN emitted} = FullVaryingDates(perf[f])
                    /\ \A i, j \in DOMAIN emitted : i < j => emitted[i].date < emitted[j].date

\* C8 witness: a backfill has left a hole between two dates it emitted
C8_Witness ==
    /\ run.kind = "complete"
    /\ \E f \in Factors :
          /\ run.mode[f] = "backfill"
          /\ \E d \in ROLLING_WINDOW..ScenarioDays :
                /\ d \in PersistedDates(zstore, f)
                /\ d + 1 \notin PersistedDates(zstore, f)
                /\ d + 2 \in PersistedDates(zstore, f)

\* C9: the records of factor f after a complete run are those the run leaves
\* when the other factors have no performance rows and no persisted records
C9_FactorsIndependent ==
    run.kind = "complete" =>
        \A f \in Factors : RowsOf(zstore, f) = RowsOf(SoloRun(f), f)

\* C10: after a run died between delete and insert, the next complete run
\* over the same inputs leaves the table the dead run would have left
C10_CrashIsRepaired ==
    (run.kind = "complete" /\ run.repairs) => zstore = run.expected

\* the value of column col for ticker t in a feature table, NaN when the
\* table has no such column
Cell(table, col, t) ==
    IF col \in DOMAIN table.cols THEN table.cols[col][t] ELSE NaN

\* the name of the trailing-return column of horizon h
ReturnColumn(h) ==
    IF h = 252 THEN "return_12m" ELSE IF h = 63 THEN "return_3m" ELSE "return_1m"

\* C17: in the feature table of a panel with more than h rows, the trailing
\* return of horizon h of a ticker is price[last] / price[last - h] - 1, the
\* start row being h rows before the last row (the row the Performance
\* Aggregator starts from)
C17_TrailingReturnStartRow ==
    feat.kind = "table" =>
        \A h \in {21, 63, 252} :
            PanelRows(feat.panel) > h =>
                \A t \in feat.table.index :
                    Cell(feat.table, ReturnColumn(h), t)
                    = ReturnFromRow(feat.panel[t], PanelRows(feat.panel) - h)

\* C18: the tickers the history filter keeps are the non-benchmark tickers
\* with a close on at least 95% of the panel's dates, and the benchmark
\* when it is a column of the panel
C18_FilterKeeps95Percent ==
    (feat.kind = "table" /\ ~PanelEmpty(feat.panel)) =>
        feat.table.index
        = {t \in DOMAIN feat.panel \ {BENCHMARK_TICKER} :
              100 * CountDefined(feat.panel[t]) >= 95 * PanelRows(feat.panel)}
          \cup (DOMAIN feat.panel \cap {BENCHMARK_TICKER})

\* the dates on which ticker t and the benchmark both have a log return
\* (a close on the date and on the date before), the benchmark's being
\* positive when green
Overlap(panel, t, green) ==
    IF BENCHMARK_TICKER \notin DOMAIN panel THEN {}
    ELSE {i \in 2..PanelRows(panel) :
            /\ panel[t][i] # NaN /\ panel[t][i - 1] # NaN
            /\ panel[BENCHMARK_TICKER][i] # NaN /\ panel[BENCHMARK_TICKER][i - 1] # NaN
            /\ green => panel[BENCHMARK_TICKER][i][1] > panel[BENCHMARK_TICKER][i - 1][1]}

\* C19: for every ticker of the feature table, beta and idiosyncratic_vol
\* are undefined when the ticker and the benchmark share fewer than 200
\* dates with a log return, both are defined otherwise, and a defined
\* idiosyncratic_vol is not negative
C19_BetaDefinedFrom200 ==
    feat.kind = "table" =>
        \A t \in feat.table.index :
            LET beta == Cell(feat.table, "beta", t)
                vol == Cell(feat.table, "idiosyncratic_vol", t)
            IN  /\ Cardinality(Overlap(feat.panel, t, FALSE)) < 200
                   => beta = NaN /\ vol = NaN
                /\ Cardinality(Overlap(feat.panel, t, FALSE)) >= 200
                   => beta # NaN /\ vol # NaN
                /\ vol # NaN => vol[1].num >= 0 /\ vol[1].den > 0

\* C19 witness: a feature table in which one ticker has a beta and an
\* idiosyncratic_vol and another, short of 200 common dates, has none
C19_Witness ==
    /\ feat.kind = "table"
    /\ \E t, u \in feat.table.index :
          /\ Cell(feat.table, "beta", t) # NaN
          /\ Cell(feat.table, "idiosyncratic_vol", t) # NaN
          /\ Cell(feat.table, "beta", u) = NaN
          /\ Cardinality(Overlap(feat.panel, u, FALSE)) \in 1..199

\* C20: upside_beta of a ticker is defined exactly when the ticker has a
\* log return on at least 50 of the dates on which the benchmark's log
\* return is positive
C20_UpsideBetaDefinedFrom50 ==
    feat.kind = "table" =>
        \A t \in feat.table.index :
            Cell(feat.table, "upside_beta", t) # NaN
            <=> Cardinality(Overlap(feat.panel, t, TRUE)) >= 50

\* the rows of a membership table whose run_date is date
OfRunDate(store, date) ==
    [r \in {x \in DOMAIN store : x.run_date = date} |-> store[r]]

\* C11: after a Rule Classifier run that completed on date D, the
\* membership rows of run_date D are exactly the records that run
\* produced, also when it matched nothing: what an earlier run of D wrote
\* is gone
C11_RerunSupersedesDate ==
    (crun.kind = "run" /\ ~crun.fatal /\ crun.outcome = "None")
        => OfRunDate(members, crun.date) = BagOfSeq(crun.results)

\* the rows of run_date date a performance table has for factor f
PerfRowsOn(table, f, date) == {i \in DOMAIN table[f] : table[f][i].run_date = date}

\* C12: a Performance Aggregator run that repeats the run before it (same
\* run_date, same holdings, same price panel) leaves the performance table
\* as the first run left it, with exactly one row of that date per factor
\* of the holdings
C12_PerfRerunIdempotent ==
    (prun.kind = "run" /\ prun.uploaded /\ prun.first # <<>>)
        => /\ perf = prun.first[1]
           /\ \A f \in Factors :
                 Cardinality(PerfRowsOn(perf, f, prun.date))
                     = (IF f \in DOMAIN prun.holdings THEN 1 ELSE 0)

C12_Witness ==
    /\ prun.kind = "run" /\ prun.uploaded /\ prun.first # <<>>
    /\ DOMAIN prun.holdings = Factors
    /\ \A f \in Factors : prun.df[f].perf.perf_1d # NaN

\* C13: a Rule Classifier run that finds the price panel empty or no
\* active STATISTICAL definition sends no delete and no insert to the
\* membership table; a Performance Aggregator run that finds no holdings or
\* the price panel empty sends none to the performance table
C13_FatalInputsWriteNothing ==
    /\ (crun.kind = "run" /\ (crun.panel_empty \/ crun.factors = {}))
          => crun.ops = <<>>
    /\ (prun.kind = "run" /\ (DOMAIN prun.holdings = {} \/ PanelEmpty(prun.panel)))
          => prun.ops = <<>>

C13_Witness ==
    /\ crun.kind = "run" /\ crun.factors = {} /\ ~crun.panel_empty
    /\ OfRunDate(members, crun.date) # EmptyBag

\* C14: a Rule Classifier run for which the benchmark is neither in the
\* price store nor given by the download aborts: it classifies with no
\* feature table and writes no record to the membership table
C14_NoBenchmarkAborts ==
    (crun.kind = "run" /\ crun.benchmark = "unobtainable")
        => /\ ~crun.classified
           /\ crun.results = <<>>
           /\ crun.ops = <<>>

\* C15: what the caller of a run sees (the value returned, or an
\* exception) differs between a run that met a fatal condition and a run
\* that did not
C15_FatalOutcomeDiffers ==
    /\ (crun.kind = "run" /\ crun.prev.kind = "run" /\ crun.fatal # crun.prev.fatal)
          => crun.outcome # crun.prev.outcome
    /\ (prun.kind = "run" /\ prun.prev.kind = "run" /\ prun.fatal # prun.prev.fatal)
          => prun.outcome # prun.prev.outcome

\* C16: in a batched write (membership rows in chunks of 1000, Z-score
\* rows in chunks of 500) every chunk is attempted, whichever chunks fail
C16_EveryChunkAttempted ==
    wlog.kind # "none" => Range(wlog.attempts) = 1..wlog.chunks

\* the surviving universe of the metric of the rules: the instruments
\* whose value is defined
Universe == {t \in feat.table.index : feat.table.cols[RuleMetric][t] # NaN}

\* the instruments the definition of factor id matched
Matched(id) == {crun.results[k].ticker :
                   k \in {j \in DOMAIN crun.results : crun.results[j].factor_id = id}}

\* C21: on a non-empty universe of pairwise distinct values of any size,
\* top_percentile(0.10) and bottom_percentile(0.10) of the same metric
\* match disjoint sets of instruments
C21_TopAndBottomDisjoint ==
    (/\ crun.kind = "step3" /\ crun.i >= 2
     /\ Universe # {}
     /\ \A a, b \in Universe :
           a # b => feat.table.cols[RuleMetric][a] # feat.table.cols[RuleMetric][b])
        => Matched(1) \cap Matched(2) = {}

\* the value of the metric of the rules for an instrument of the universe
MetricOf(t) == feat.table.cols[RuleMetric][t][1]

\* twice the average of the positions an instrument and its ties take when
\* the universe is put in ascending order
TwiceAverageRank(t) ==
    LET below == Cardinality({u \in Universe : RLess(MetricOf(u), MetricOf(t))})
        tied == Cardinality({u \in Universe : MetricOf(u) = MetricOf(t)})
    IN 2 * below + tied + 1

\* C22: the percentile rank of a record is the average-tie rank of its
\* instrument among all instruments of the universe with a defined value,
\* as a fraction of their number; it lies in [0, 1] and a greater value
\* never has a smaller rank
C22_RankOverFullUniverse ==
    crun.kind = "step3" =>
        /\ \A k \in DOMAIN crun.results :
              LET r == crun.results[k]
              IN /\ r.percentile_rank
                      = Frac(TwiceAverageRank(r.ticker), 2 * Cardinality(Universe))
                 /\ 0 <= r.percentile_rank.num
                 /\ r.percentile_rank.num <= r.percentile_rank.den
        /\ \A j, k \in DOMAIN crun.results :
              RLess(crun.results[k].metric_value, crun.results[j].metric_value)
                 => RLeq(crun.results[k].percentile_rank, crun.results[j].percentile_rank)

C22_Witness ==
    /\ crun.kind = "step3" /\ crun.i = Len(RuleFactors)
    /\ \E j, k \in DOMAIN crun.results :
          /\ crun.results[j].factor_id = crun.results[k].factor_id
          /\ crun.results[j].ticker # crun.results[k].ticker
          /\ crun.results[j].metric_value = crun.results[k].metric_value
          /\ Universe \ Matched(crun.results[j].factor_id) # {}

\* the member tickers of factor f that have a column in the panel of the
\* run and a close on its last date and h dates before
Contributors(f, h) ==
    {t \in prun.holdings[f] \cap DOMAIN prun.panel :
        /\ PanelRows(prun.panel) > h
        /\ prun.panel[t][PanelRows(prun.panel)] # NaN
        /\ prun.panel[t][PanelRows(prun.panel) - h] # NaN}

\* last close / close h dates before - 1
PriceRelative(t, h) ==
    Frac(prun.panel[t][PanelRows(prun.panel)][1] - prun.panel[t][PanelRows(prun.panel) - h][1],
         prun.panel[t][PanelRows(prun.panel) - h][1])

\* C23: for every factor and horizon h the Performance Aggregator gives
\* the mean of price[last] / price[last - h] - 1 over exactly the member
\* tickers that have a column in the panel and both prices defined, and
\* num_holdings is the size of the whole membership set, so a member
\* absent from the panel changes neither
C23_MeanOverPricedMembers ==
    (prun.kind = "run" /\ ~prun.fatal) =>
        \A f \in DOMAIN prun.df :
            /\ prun.df[f].num_holdings = Cardinality(prun.holdings[f])
            /\ \A p \in DOMAIN PERIODS :
                  LET who == Contributors(f, PERIODS[p])
                      total == FracSum([t \in who |-> PriceRelative(t, PERIODS[p])], who)
                  IN  IF who = {} THEN prun.df[f].perf[p] = NaN
                      ELSE prun.df[f].perf[p]
                              = <<Frac(total.num, total.den * Cardinality(who))>>

C23_Witness ==
    /\ prun.kind = "run" /\ ~prun.fatal
    /\ \E f \in DOMAIN prun.df :
          /\ prun.holdings[f] = {"A", "B", "C"}
          /\ "C" \notin DOMAIN prun.panel
          /\ prun.df[f].num_holdings = 3
          /\ Contributors(f, 1) = {"A", "B"}
          /\ prun.df[f].perf.perf_1d # NaN
          /\ prun.df[f].perf.perf_1d # <<Frac(0, 1)>>

\* C24: on a panel of at most h dates the trailing return of horizon h of
\* the Feature Engine is undefined for every ticker and the return of
\* horizon h of the Performance Aggregator is undefined for every factor
C24_ShortPanelUndefined ==
    /\ feat.kind = "table" =>
          \A h \in {252, 63, 21} :
              PanelRows(feat.panel) <= h =>
                  \A t \in feat.table.index :
                      Cell(feat.table, ReturnColumn(h), t) = NaN
    /\ (prun.kind = "run" /\ ~prun.fatal) =>
          \A p \in DOMAIN PERIODS :
              PanelRows(prun.panel) <= PERIODS[p] =>
                  \A f \in DOMAIN prun.df : prun.df[f].perf[p] = NaN

C24_Witness ==
    /\ prun.kind = "run" /\ ~prun.fatal
    /\ PanelRows(prun.panel) = 21
    /\ \E f \in DOMAIN prun.df :
          prun.df[f].perf.perf_5d # NaN /\ prun.df[f].perf.perf_1m = NaN
    /\ feat.kind = "table" /\ PanelRows(feat.panel) = 21

\* the run dates of the result rows, statistical and thematic, a
\* performance run found
EvaluationDates == RunDates(members) \cup {r.run_date : r \in prun.thematic}

\* C26: the holdings of a factor are a set of tickers (a ticker matched by
\* a statistical rule and by the thematic table is one element of it), and
\* each of them comes from a result row of the most recent evaluation
\* date, none from a row of an older run_date only
C26_HoldingsOfLatestDate ==
    (prun.kind = "run" /\ DOMAIN prun.holdings # {}) =>
        \A f \in DOMAIN prun.holdings :
        \A t \in prun.holdings[f] :
            \/ \E r \in DOMAIN members :
                  /\ r.factor_id = f /\ r.ticker = t
                  /\ \A d \in EvaluationDates : d <= r.run_date
            \/ \E r \in prun.thematic :
                  /\ r.factor_id = f /\ r.ticker = t
                  /\ \A d \in EvaluationDates : d <= r.run_date

\* the row of ticker t in the frame of fundamentals
FundamentalRow(t) == [c \in FundamentalColumns |-> feat.df.cols[c][t]]

\* what the fetch of ticker t alone determines
OwnRow(t) ==
    [c \in FundamentalColumns |-> fetch_single_ticker_fundamentals(t, feat.fetched[t])[c]]

\* calculate_fundamental_features has returned or raised
FundamentalsDone == feat.kind = "fundamentals" /\ feat.outcome # "running"

C27_OneRecordPerFactorDate ==
    \A r \in DOMAIN zstore :
        /\ zstore[r] = 1
        /\ \A q \in DOMAIN zstore :
              (q.factor_id = r.factor_id /\ q.date = r.date) => q = r

\* the number of persisted records of factor f
Persisted(f) == BagCardinality(RowsOf(zstore, f))

\* the records a completed run uploaded for factor f
Uploaded(f) == {i \in DOMAIN run.results : run.results[i].factor_id = f}

\* what a backfill of factor f over N = Len(perf[f]) observations uploads:
\* at most N - 251 records, none dated before the 252nd observation
BackfillBound(f) ==
    (run.kind = "complete" /\ run.mode[f] = "backfill") =>
        /\ Cardinality(Uploaded(f)) <= Len(perf[f]) - (ROLLING_WINDOW - 1)
        /\ \A i \in Uploaded(f) :
              /\ run.results[i].date >= perf[f][ROLLING_WINDOW].run_date
              /\ zstore[run.results[i]] = 1

\* factor f has 252 to 502 performance observations
ShortOfSecondWindow(f) ==
    /\ Len(perf[f]) >= ROLLING_WINDOW
    /\ Len(perf[f]) <= 2 * ROLLING_WINDOW - 2

\* C28 as stated: a backfill over N observations persists at most N - 251
\* records, all dated at or after the 252nd observation, and every run
\* backfills a factor with 252 to 502 observations, whose persisted count
\* stays below 252
C28_BackfilledOnEveryRun ==
    \A f \in Factors :
        /\ BackfillBound(f)
        /\ (run.kind = "complete" /\ ShortOfSecondWindow(f)) =>
              /\ run.mode[f] = "backfill"
              /\ Persisted(f) < ROLLING_WINDOW

\* C28 amended: a backfill over N observations persists at most N - 251
\* records, all dated at or after the 252nd observation, and a run that
\* finds fewer than 252 persisted records of a factor with 252 to 502
\* observations backfills it and leaves fewer than 252 again
C28_BackfilledWhileBelowWindow ==
    \A f \in Factors :
        /\ BackfillBound(f)
        /\ (run.kind = "complete" /\ ShortOfSecondWindow(f)
              /\ run.counts[f] < ROLLING_WINDOW) =>
              /\ run.mode[f] = "backfill"
              /\ f \in Range(run.backfilled_factors)
              /\ Persisted(f) < ROLLING_WINDOW

\* a factor with 252 to 502 observations and records of an earlier backfill
\* has been backfilled again
C28_Witness ==
    \E f \in Factors :
        /\ run.kind = "complete"
        /\ ShortOfSecondWindow(f)
        /\ run.counts[f] > 0
        /\ run.mode[f] = "backfill"
        /\ Persisted(f) = Len(perf[f]) - (ROLLING_WINDOW - 1)

\* the response body answers for the table: its current z-score and value
\* are those of the factor's record of the latest date, and its history is
\* the most recent part of the factor's series
AnswersLatest(store, body) ==
    LET series == ZScoreSeries(store, body.factor_id)
        n == Len(series)
        k == Len(body.history)
    IN series # <<>> =>
          /\ body.status = 200
          /\ body.current_zscore = <<series[n].zscore>>
          /\ body.current_value = series[n].factor_value
          /\ k <= n
          /\ body.history = SubSeq(series, n - k + 1, n)

\* C30: whatever the number of persisted records of a factor, the response
\* of get_factor_zscore carries the z-score and value of the record of the
\* factor's most recent date, and its history is the most recent part of
\* the series
C30_CurrentIsLatest ==
    [][FactorZscoreRequest
          => (wlog'.body.factor_id \in FactorsTable
                 => AnswersLatest(zstore, wlog'.body))]_vars

\* C29: a classifier run in which the evaluation of a definition raised
\* sent no request to the membership table and left it exactly as it was
C29_RaisingRunWritesNothing ==
    [][(crun'.kind = "run" /\ crun'.raising)
          => /\ members' = members
             /\ crun'.ops = <<>>
             /\ crun'.outcome = "raised"]_vars

\* a run over several definitions, one of which raised, has ended and the
\* table holds the rows of the day before
C29_Witness ==
    /\ crun.kind = "run"
    /\ crun.raising
    /\ crun.outcome = "raised"
    /\ Cardinality(crun.factors) >= 2
    /\ members # EmptyBag
    /\ \A r \in DOMAIN members : r.run_date = Day0 - 1

====
